---- MODULE Spec2Model ----
(***************************************************************************)
(* A model of the yamf Python service-mesh client core:                    *)
(*   - ServiceState       (yamf/service/state.py)    the Discovery Cache   *)
(*   - call_service[_with_cache] (yamf/api/call_service.py)                *)
(*   - PubSubManager      (yamf/service/pubsub.py)   the SubscriptionSet   *)
(*   - create_service / create_subscription_service (yamf/api/create_*.py) *)
(* Python dicts are functions whose DOMAIN is the set of keys present;     *)
(* Python lists are sequences.  Every await on http_request is a point at  *)
(* which other coroutines of the event loop may run, so an operation that  *)
(* awaits is split into one action per stretch between awaits.             *)
(***************************************************************************)
EXTENDS Integers, Sequences, FiniteSets, TLC

\* ------------------------------------------------------------------ bounds
NumPorts == 2
\* concurrent coroutines calling into one PubSubManager
NumTasks == 2
\* subscribe calls made on one PubSubManager (caps _counter)
MaxSubs == 3
\* largest YAMF_REGISTRATION_RETRY_LIMIT tried
MaxRetryLimit == 3

\* ------------------------------------------------------------ value domains
Ports == 1..NumPorts
Names == {"a", "b"}
\* A location is "<host>:<port>"; the port is its last ':'-separated field.
Location(p) == "http://host:" \o ToString(p)
Locations == {Location(p) : p \in Ports}
\* int(location.split(':')[-1])
PortOf(location) == CHOOSE p \in Ports : Location(p) = location
Channels == {"c1", "c2"}
Payloads == {"p1", "p2"}
None == "None"
Registry == "YAMF_REGISTRY_URL"

\* ------------------------------------------------------------- dict helpers
Range(s) == {s[i] : i \in DOMAIN s}
EmptyDict == [k \in {} |-> None]
Put(d, k, v) == [x \in DOMAIN d \cup {k} |-> IF x = k THEN v ELSE d[x]]
Del(d, k) == [x \in DOMAIN d \ {k} |-> d[x]]
Without(list, item) == SelectSeq(list, LAMBDA x : x # item)
\* Python truthiness of a str | None value
Truthy(v) == v # None /\ v # ""

VARIABLES
    \* ServiceState (one cache instance)
    services, addresses, subscriptions,
    \* the caller of call_service / call_service_with_cache and the transport
    \* exchanges (http_request) the current call has made
    call, exchanges,
    \* what the last attribute lookup on the ServiceContext gave
    stub,
    \* PubSubManager: _handlers, _counter, service_location
    handlers, counter, service_location,
    \* the coroutines calling subscribe / unsubscribe / cleanup, each with its
    \* locals and the registry exchange it awaits
    tasks,
    \* the value returned by the last handle_message call and what it invoked,
    \* held until the next call on the manager starts or goes on
    dispatch,
    \* the registry's subscriber table: the (channel, location) pairs it holds
    regSubs,
    \* the frame of create_service / create_subscription_service, with the
    \* commands it has sent and the binds it has tried
    cr,
    \* the HttpServer it bound (create_http_server)
    server,
    \* the last request the endpoint's listener handled and how it was handled,
    \* held until terminate() starts
    inbound,
    \* the frame of terminate() of the created endpoint
    term,
    \* the frame of create_route
    route,
    \* what the handler of the service the endpoint's handler called did with
    \* the request
    peer,
    \* a second PubSubManager of the same process: its _handlers and _counter
    other,
    \* the last header set a builder of headers.py made: the command kind, the
    \* arguments given, the headers, and what parse_command_headers reads back
    wire

cacheVars == <<services, addresses, subscriptions>>
callVars == <<call, exchanges, stub>>
pubsubVars == <<handlers, counter, service_location, tasks, dispatch, regSubs, other, wire>>
endpointVars == <<inbound, term, route, peer>>
createVars == <<cr, server, inbound, term, route, peer>>
vars == <<services, addresses, subscriptions, call, exchanges, stub,
          handlers, counter, service_location, tasks, dispatch, regSubs, cr, server,
          inbound, term, route, peer, other, wire>>

\* ------------------------------------------------------------------ errors
ServiceNotFoundError(name) ==
    [type |-> "ServiceNotFoundError", status_code |-> 404, service_name |-> name]
HttpError(status) == [type |-> "HttpError", status_code |-> status]
\* aiohttp.ClientError / TimeoutError re-raised as a plain Exception
TransportException == [type |-> "Exception"]

\* ============================================================ ServiceState
HasService(svc, name) == name \in DOMAIN svc /\ Len(svc[name]) > 0

\* (mutant of GetLocation) pick among the locations of every cached service
GetLocationAnyService(svc, name) ==
    IF DOMAIN svc = {} THEN {None} ELSE UNION {Range(svc[n]) : n \in DOMAIN svc}

\* (mutant of GetLocation) any location at all, cached for the name or not
GetLocationAnyLocation(svc, name) == Locations

\* get_location: the set of values random.choice may return (None if no list)
GetLocation(svc, name) ==
    LET locations == IF name \in DOMAIN svc THEN svc[name] ELSE <<>>
    IN  IF Len(locations) > 0 THEN Range(locations) ELSE {None}

AddServiceAddresses(addr, name, location) == Put(addr, location, name)

AddServiceServices(svc, name, location) ==
    LET s1 == IF name \notin DOMAIN svc THEN Put(svc, name, <<>>) ELSE svc
    IN  IF location \notin Range(s1[name])
        THEN Put(s1, name, Append(s1[name], location))
        ELSE s1

\* (mutant of RemoveServiceAddresses) the reverse entry is left behind
RemoveServiceAddressesKept(addr, name, location) == addr

RemoveServiceAddresses(addr, name, location) == Del(addr, location)

RemoveServiceServices(svc, name, location) ==
    IF name \in DOMAIN svc
    THEN LET kept == Without(svc[name], location)
         IN  IF Len(kept) = 0 THEN Del(svc, name) ELSE Put(svc, name, kept)
    ELSE svc

AddSubscriptionSubs(subs, channel, location) ==
    LET s1 == IF channel \notin DOMAIN subs THEN Put(subs, channel, <<>>) ELSE subs
    IN  IF location \notin Range(s1[channel])
        THEN Put(s1, channel, Append(s1[channel], location))
        ELSE s1

\* (mutant of RemoveSubscriptionSubs) the channel keeps its emptied list
RemoveSubscriptionSubsKeepEmpty(subs, channel, location) ==
    IF channel \in DOMAIN subs
    THEN Put(subs, channel, Without(subs[channel], location))
    ELSE subs

RemoveSubscriptionSubs(subs, channel, location) ==
    IF channel \in DOMAIN subs
    THEN LET kept == Without(subs[channel], location)
         IN  IF Len(kept) = 0 THEN Del(subs, channel) ELSE Put(subs, channel, kept)
    ELSE subs

add_service(name, location) ==
    /\ addresses' = AddServiceAddresses(addresses, name, location)
    /\ services' = AddServiceServices(services, name, location)
    /\ UNCHANGED subscriptions

remove_service(name, location) ==
    /\ addresses' = RemoveServiceAddresses(addresses, name, location)
    /\ services' = RemoveServiceServices(services, name, location)
    /\ UNCHANGED subscriptions

add_subscription(channel, location) ==
    /\ subscriptions' = AddSubscriptionSubs(subscriptions, channel, location)
    /\ UNCHANGED <<services, addresses>>

remove_subscription(channel, location) ==
    /\ subscriptions' = RemoveSubscriptionSubs(subscriptions, channel, location)
    /\ UNCHANGED <<services, addresses>>

clear ==
    /\ services' = EmptyDict
    /\ addresses' = EmptyDict
    /\ subscriptions' = EmptyDict

AddService == \E n \in Names, l \in Locations : add_service(n, l) /\ UNCHANGED <<callVars, pubsubVars, createVars>>
RemoveService == \E n \in Names, l \in Locations : remove_service(n, l) /\ UNCHANGED <<callVars, pubsubVars, createVars>>
AddSubscription ==
    \E c \in Channels, l \in Locations : add_subscription(c, l) /\ UNCHANGED <<callVars, pubsubVars, createVars>>
RemoveSubscription ==
    \E c \in Channels, l \in Locations : remove_subscription(c, l) /\ UNCHANGED <<callVars, pubsubVars, createVars>>
Clear == clear /\ UNCHANGED <<callVars, pubsubVars, createVars>>

\* ================================================================= headers
\* constants.py: the header names and the command values
Header == [COMMAND |-> "yamf-command", SERVICE_NAME |-> "yamf-service-name",
           SERVICE_LOCATION |-> "yamf-service-location",
           SERVICE_HOME |-> "yamf-service-home",
           USE_AUTH_SERVICE |-> "yamf-use-auth-service",
           AUTH_TOKEN |-> "yamf-auth-token", REGISTRY_TOKEN |-> "yamf-registry-token",
           ROUTE_PATH |-> "yamf-route-path", ROUTE_DATATYPE |-> "yamf-route-datatype",
           ROUTE_TYPE |-> "yamf-route-type", PUBSUB_CHANNEL |-> "yamf-pubsub-channel"]
Command == [SERVICE_SETUP |-> "service-setup", SERVICE_REGISTER |-> "service-register",
            SERVICE_UNREGISTER |-> "service-unregister",
            SERVICE_LOOKUP |-> "service-lookup", SERVICE_CALL |-> "service-call",
            ROUTE_REGISTER |-> "route-register", PUBSUB_PUBLISH |-> "pubsub-publish",
            PUBSUB_SUBSCRIBE |-> "pubsub-subscribe",
            PUBSUB_UNSUBSCRIBE |-> "pubsub-unsubscribe", CACHE_UPDATE |-> "cache-update"]

\* an argument the caller leaves out, so that the parameter's default applies
NotGiven == "<not given>"
Arg(value, default) == IF value = NotGiven THEN default ELSE value
\* "if registry_token: headers[...] = registry_token"
WithOptional(headers, key, value) ==
    IF Truthy(value) THEN Put(headers, key, value) ELSE headers
\* a dict display {k1: v1, k2: v2, ...}
Dict(pairs) ==
    [k \in {pairs[i][1] : i \in DOMAIN pairs} |->
        (CHOOSE p \in Range(pairs) : p[1] = k)[2]]

build_setup_headers(service_name, service_home, registry_token) ==
    WithOptional(Dict(<<<<Header.COMMAND, Command.SERVICE_SETUP>>,
                        <<Header.SERVICE_NAME, service_name>>,
                        <<Header.SERVICE_HOME, service_home>>>>),
                 Header.REGISTRY_TOKEN, Arg(registry_token, None))

build_register_headers(service_name, location, use_auth_service, registry_token) ==
    WithOptional(
        WithOptional(Dict(<<<<Header.COMMAND, Command.SERVICE_REGISTER>>,
                            <<Header.SERVICE_NAME, service_name>>,
                            <<Header.SERVICE_LOCATION, location>>>>),
                     Header.USE_AUTH_SERVICE, Arg(use_auth_service, None)),
        Header.REGISTRY_TOKEN, Arg(registry_token, None))

build_unregister_headers(service_name, location, registry_token) ==
    WithOptional(Dict(<<<<Header.COMMAND, Command.SERVICE_UNREGISTER>>,
                        <<Header.SERVICE_NAME, service_name>>,
                        <<Header.SERVICE_LOCATION, location>>>>),
                 Header.REGISTRY_TOKEN, Arg(registry_token, None))

build_lookup_headers(service_name) ==
    Dict(<<<<Header.COMMAND, Command.SERVICE_LOOKUP>>,
           <<Header.SERVICE_NAME, service_name>>>>)

build_call_headers(service_name, auth_token) ==
    WithOptional(Dict(<<<<Header.COMMAND, Command.SERVICE_CALL>>,
                        <<Header.SERVICE_NAME, service_name>>>>),
                 Header.AUTH_TOKEN, Arg(auth_token, None))

build_route_register_headers(service_name, route_path, data_type, route_type, registry_token) ==
    WithOptional(Dict(<<<<Header.COMMAND, Command.ROUTE_REGISTER>>,
                        <<Header.SERVICE_NAME, service_name>>,
                        <<Header.ROUTE_PATH, route_path>>,
                        <<Header.ROUTE_DATATYPE, Arg(data_type, "application/json")>>,
                        <<Header.ROUTE_TYPE, Arg(route_type, "route")>>>>),
                 Header.REGISTRY_TOKEN, Arg(registry_token, None))

build_publish_headers(channel, registry_token) ==
    WithOptional(Dict(<<<<Header.COMMAND, Command.PUBSUB_PUBLISH>>,
                        <<Header.PUBSUB_CHANNEL, channel>>>>),
                 Header.REGISTRY_TOKEN, Arg(registry_token, None))

build_subscribe_headers(channel, location, registry_token) ==
    WithOptional(Dict(<<<<Header.COMMAND, Command.PUBSUB_SUBSCRIBE>>,
                        <<Header.PUBSUB_CHANNEL, channel>>,
                        <<Header.SERVICE_LOCATION, location>>>>),
                 Header.REGISTRY_TOKEN, Arg(registry_token, None))

build_unsubscribe_headers(channel, location, registry_token) ==
    WithOptional(Dict(<<<<Header.COMMAND, Command.PUBSUB_UNSUBSCRIBE>>,
                        <<Header.PUBSUB_CHANNEL, channel>>,
                        <<Header.SERVICE_LOCATION, location>>>>),
                 Header.REGISTRY_TOKEN, Arg(registry_token, None))

build_cache_update_headers(pubsub_channel, service_name, location) ==
    Dict(<<<<Header.COMMAND, Command.CACHE_UPDATE>>,
           <<Header.PUBSUB_CHANNEL, pubsub_channel>>,
           <<Header.SERVICE_NAME, service_name>>,
           <<Header.SERVICE_LOCATION, location>>>>)

\* headers.get(key)
Get(headers, key) == IF key \in DOMAIN headers THEN headers[key] ELSE None

\* (mutant of parse_command_headers) the route data type is read from the
\* route type header
parse_command_headers_route_type(headers) ==
    [command |-> Get(headers, Header.COMMAND),
     service_name |-> Get(headers, Header.SERVICE_NAME),
     service_location |-> Get(headers, Header.SERVICE_LOCATION),
     use_auth_service |-> Get(headers, Header.USE_AUTH_SERVICE),
     service_home |-> Get(headers, Header.SERVICE_HOME),
     route_path |-> Get(headers, Header.ROUTE_PATH),
     route_data_type |-> Get(headers, Header.ROUTE_TYPE),
     route_type |-> Get(headers, Header.ROUTE_TYPE),
     pubsub_channel |-> Get(headers, Header.PUBSUB_CHANNEL)]

parse_command_headers(headers) ==
    [command |-> Get(headers, Header.COMMAND),
     service_name |-> Get(headers, Header.SERVICE_NAME),
     service_location |-> Get(headers, Header.SERVICE_LOCATION),
     use_auth_service |-> Get(headers, Header.USE_AUTH_SERVICE),
     service_home |-> Get(headers, Header.SERVICE_HOME),
     route_path |-> Get(headers, Header.ROUTE_PATH),
     route_data_type |-> Get(headers, Header.ROUTE_DATATYPE),
     route_type |-> Get(headers, Header.ROUTE_TYPE),
     pubsub_channel |-> Get(headers, Header.PUBSUB_CHANNEL)]

\* the values a caller passes: for a required str parameter, and for an optional
\* one (left out, None, or a str)
StrValues == {"", "v", "w"}
OptionalValues == {NotGiven, None, "", "v"}
TokenValues == {NotGiven, "t"}
\* the arguments of one builder call, by the name of the field they describe
NoArguments ==
    [service_name |-> NotGiven, service_location |-> NotGiven,
     use_auth_service |-> NotGiven, service_home |-> NotGiven,
     route_path |-> NotGiven, route_data_type |-> NotGiven, route_type |-> NotGiven,
     pubsub_channel |-> NotGiven, registry_token |-> NotGiven, auth_token |-> NotGiven]
CommandKinds ==
    {Command.SERVICE_SETUP, Command.SERVICE_REGISTER, Command.SERVICE_UNREGISTER,
     Command.SERVICE_LOOKUP, Command.SERVICE_CALL, Command.ROUTE_REGISTER,
     Command.PUBSUB_PUBLISH, Command.PUBSUB_SUBSCRIBE, Command.PUBSUB_UNSUBSCRIBE,
     Command.CACHE_UPDATE}

\* the calls of the builder of one command kind
BuilderCalls(kind) ==
    CASE kind = Command.SERVICE_SETUP ->
            {[NoArguments EXCEPT !.service_name = n, !.service_home = h,
                                 !.registry_token = t] :
                n \in StrValues, h \in {"v"}, t \in TokenValues}
      [] kind = Command.SERVICE_REGISTER ->
            {[NoArguments EXCEPT !.service_name = n, !.service_location = l,
                                 !.use_auth_service = a, !.registry_token = t] :
                n \in StrValues, l \in StrValues, a \in OptionalValues,
                t \in TokenValues}
      [] kind = Command.SERVICE_UNREGISTER ->
            {[NoArguments EXCEPT !.service_name = n, !.service_location = l,
                                 !.registry_token = t] :
                n \in StrValues, l \in StrValues, t \in TokenValues}
      [] kind = Command.SERVICE_LOOKUP ->
            {[NoArguments EXCEPT !.service_name = n] : n \in StrValues}
      [] kind = Command.SERVICE_CALL ->
            {[NoArguments EXCEPT !.service_name = n, !.auth_token = t] :
                n \in StrValues, t \in TokenValues}
      [] kind = Command.ROUTE_REGISTER ->
            {[NoArguments EXCEPT !.service_name = n, !.route_path = p,
                                 !.route_data_type = d, !.route_type = r,
                                 !.registry_token = t] :
                n \in StrValues, p \in StrValues, d \in {NotGiven, "", "v"},
                r \in {NotGiven, "v"}, t \in TokenValues}
      [] kind = Command.PUBSUB_PUBLISH ->
            {[NoArguments EXCEPT !.pubsub_channel = c, !.registry_token = t] :
                c \in StrValues, t \in TokenValues}
      [] kind \in {Command.PUBSUB_SUBSCRIBE, Command.PUBSUB_UNSUBSCRIBE} ->
            {[NoArguments EXCEPT !.pubsub_channel = c, !.service_location = l,
                                 !.registry_token = t] :
                c \in StrValues, l \in StrValues, t \in TokenValues}
      [] OTHER ->
            {[NoArguments EXCEPT !.pubsub_channel = c, !.service_name = n,
                                 !.service_location = l] :
                c \in StrValues, n \in StrValues, l \in StrValues}

\* the builder of the command kind applied to the arguments
Build(kind, g) ==
    CASE kind = Command.SERVICE_SETUP ->
            build_setup_headers(g.service_name, g.service_home, g.registry_token)
      [] kind = Command.SERVICE_REGISTER ->
            build_register_headers(g.service_name, g.service_location,
                                   g.use_auth_service, g.registry_token)
      [] kind = Command.SERVICE_UNREGISTER ->
            build_unregister_headers(g.service_name, g.service_location,
                                     g.registry_token)
      [] kind = Command.SERVICE_LOOKUP -> build_lookup_headers(g.service_name)
      [] kind = Command.SERVICE_CALL ->
            build_call_headers(g.service_name, g.auth_token)
      [] kind = Command.ROUTE_REGISTER ->
            build_route_register_headers(g.service_name, g.route_path,
                                         g.route_data_type, g.route_type,
                                         g.registry_token)
      [] kind = Command.PUBSUB_PUBLISH ->
            build_publish_headers(g.pubsub_channel, g.registry_token)
      [] kind = Command.PUBSUB_SUBSCRIBE ->
            build_subscribe_headers(g.pubsub_channel, g.service_location,
                                    g.registry_token)
      [] kind = Command.PUBSUB_UNSUBSCRIBE ->
            build_unsubscribe_headers(g.pubsub_channel, g.service_location,
                                      g.registry_token)
      [] OTHER ->
            build_cache_update_headers(g.pubsub_channel, g.service_name,
                                       g.service_location)

NoWire == [kind |-> None, given |-> NoArguments, headers |-> EmptyDict,
           parsed |-> parse_command_headers(EmptyDict)]

\* a header set is built and parse_command_headers reads it back
BuildAndParse ==
    \E kind \in CommandKinds :
        \E g \in BuilderCalls(kind) :
            /\ wire' = [kind |-> kind, given |-> g, headers |-> Build(kind, g),
                        parsed |-> parse_command_headers(Build(kind, g))]
            /\ UNCHANGED <<cacheVars, callVars, handlers, counter, service_location,
                           tasks, dispatch, regSubs, other, createVars>>

\* ============================================================ call_service
IdleCall == [pc |-> "idle", op |-> None, name |-> None, payload |-> None,
             result |-> None, error |-> None]

\* What the peer (or the registry) answers to one exchange: a status and a
\* body, or no answer at all (network failure / timeout).
Responses == {[status |-> 200, body |-> "r1"], [status |-> 200, body |-> "r2"],
              [status |-> 404, body |-> "not found"], [status |-> 500, body |-> "boom"],
              [status |-> 0, body |-> None]}

\* http_request's outcome for a response: the value returned or the error raised
HttpRequestOutcome(resp) ==
    IF resp.status = 0 THEN [raised |-> TRUE, error |-> TransportException, value |-> None]
    ELSE IF resp.status >= 400
         THEN [raised |-> TRUE, error |-> HttpError(resp.status), value |-> None]
         ELSE [raised |-> FALSE, error |-> None, value |-> resp.body]

Exchange(target, heads, payload) ==
    [to |-> target, headers |-> heads, body |-> payload, response |-> None]

\* build_call_headers(name): the service-call command for the registry
BuildCallHeaders(name) == [command |-> "service-call", service_name |-> name]
NoHeaders == [command |-> None]

\* (mutant of CachedCallNotFound) the docstring's "falls back to registry if
\* service not in cache": route the call through the registry instead of raising
CachedCallRegistryFallback(name, payload) ==
    [call |-> [IdleCall EXCEPT !.pc = "awaiting", !.op = "call_service_with_cache",
                               !.name = name, !.payload = payload],
     exchanges |-> <<Exchange(Registry, BuildCallHeaders(name), payload)>>]

\* call_service_with_cache, name not in the cache: raise ServiceNotFoundError
CachedCallNotFound(name, payload) ==
    [call |-> [IdleCall EXCEPT !.pc = "raised", !.op = "call_service_with_cache",
                               !.name = name, !.payload = payload,
                               !.error = ServiceNotFoundError(name)],
     exchanges |-> <<>>]

\* call_service_with_cache, location picked: http_request(location, body=payload)
CachedCallDirect(name, payload, location) ==
    [call |-> [IdleCall EXCEPT !.pc = "awaiting", !.op = "call_service_with_cache",
                               !.name = name, !.payload = payload],
     exchanges |-> <<Exchange(location, NoHeaders, payload)>>]

\* call_service_with_cache up to its await: every outcome it can have
CallWithCacheOutcomes(svc, name, payload) ==
    IF ~HasService(svc, name)
    THEN {CachedCallNotFound(name, payload)}
    ELSE {IF ~Truthy(location)
          THEN CachedCallNotFound(name, payload)
          ELSE CachedCallDirect(name, payload, location) :
              location \in GetLocation(svc, name)}

CallWithCacheBegin ==
    \E name \in Names, payload \in Payloads :
        /\ call.pc # "awaiting"
        /\ \E out \in CallWithCacheOutcomes(services, name, payload) :
               /\ call' = out.call
               /\ exchanges' = out.exchanges
        /\ UNCHANGED <<stub, cacheVars, pubsubVars, createVars>>

\* call_service: always through the registry, whatever the cache holds
CallServiceBegin ==
    \E name \in Names, payload \in Payloads :
        /\ call.pc # "awaiting"
        /\ call' = [IdleCall EXCEPT !.pc = "awaiting", !.op = "call_service",
                       !.name = name, !.payload = payload]
        /\ exchanges' = <<Exchange(Registry, BuildCallHeaders(name), payload)>>
        /\ UNCHANGED <<stub, cacheVars, pubsubVars, createVars>>

\* What the call returns for http_request's value
CallReturnValue(value) == value

\* the awaited http_request completes: return await http_request(...)
CallEnd ==
    \E resp \in Responses :
        /\ call.pc = "awaiting"
        /\ exchanges' = [exchanges EXCEPT ![Len(exchanges)].response = resp]
        /\ LET out == HttpRequestOutcome(resp)
           IN  call' = IF out.raised
                       THEN [call EXCEPT !.pc = "raised", !.error = out.error]
                       ELSE [call EXCEPT !.pc = "returned",
                                          !.result = CallReturnValue(out.value)]
        /\ UNCHANGED <<stub, cacheVars, pubsubVars, createVars>>

\* =========================================================== ServiceContext
\* the names a ServiceContext is asked for: a plain service name, one with a
\* leading underscore, and the names of two of its own members
AttrNames == {"a", "_a", "call", "cache"}
\* the service names this context's cache is given
ContextNames == {"a", "_a", "call"}
\* what normal attribute lookup finds on a ServiceContext, so that __getattr__
\* is not consulted: its methods, its property and its instance attributes
Members == {"call", "publish", "cache", "_update_from_cache", "_state", "_service_name"}
\* name.startswith('_')
StartsWithUnderscore(name) == name \in {"_a", "_update_from_cache", "_state", "_service_name"}

NoStub == [kind |-> None, attr |-> None, cached |-> FALSE, invoked |-> FALSE]

\* (mutant of AbsentStubError) the caller's error for a missing service
AbsentStubServiceNotFound(name) == "ServiceNotFoundError"

\* __getattr__: "raise AttributeError(...)" for a name that is not in the cache
AbsentStubError(name) == "AttributeError"

\* getattr(context, name): the member if there is one, else __getattr__(name)
GetAttr(svc, name) ==
    IF name \in Members THEN "member"
    ELSE IF StartsWithUnderscore(name) THEN "AttributeError"
    ELSE IF HasService(svc, name) THEN "stub"
    ELSE AbsentStubError(name)

\* context.<name> is evaluated; cached is has_service(name) at that moment
ContextGetAttr ==
    \E name \in AttrNames :
        /\ call.pc # "awaiting"
        /\ stub' = [kind |-> GetAttr(services, name), attr |-> name,
                    cached |-> HasService(services, name), invoked |-> FALSE]
        /\ call' = IdleCall
        /\ exchanges' = <<>>
        /\ UNCHANGED <<cacheVars, pubsubVars, createVars>>

\* (mutant of StubOutcomes) the stub goes to a location without looking into
\* the cache again
StubOutcomesRemembered(svc, name, payload) ==
    {CachedCallDirect(name, payload, location) : location \in Locations}

\* the body of service_stub: self.call(name, payload), which is
\* call_service_with_cache(self._state, name, payload) on the cache as it is
\* when the stub is invoked
StubOutcomes(svc, name, payload) == CallWithCacheOutcomes(svc, name, payload)

\* service_stub(payload): "return await self.call(name, payload)"
StubInvoke ==
    \E payload \in Payloads :
        /\ stub.kind = "stub"
        /\ call.pc # "awaiting"
        /\ \E out \in StubOutcomes(services, stub.attr, payload) :
               /\ call' = out.call
               /\ exchanges' = out.exchanges
        /\ stub' = [stub EXCEPT !.invoked = TRUE]
        /\ UNCHANGED <<cacheVars, pubsubVars, createVars>>

\* context.call(service_name, payload): call_service_with_cache(self._state, ...)
ContextCall ==
    \E name \in ContextNames, payload \in Payloads :
        /\ call.pc # "awaiting"
        /\ \E out \in CallWithCacheOutcomes(services, name, payload) :
               /\ call' = out.call
               /\ exchanges' = out.exchanges
        /\ stub' = NoStub
        /\ UNCHANGED <<cacheVars, pubsubVars, createVars>>

\* the locations this context's cache is given: the first and the last
ContextLocations == {Location(1), Location(NumPorts)}

\* the cache of this context gains a service (registry snapshot or push)
ContextAddService ==
    \E name \in ContextNames, location \in ContextLocations :
        /\ add_service(name, location)
        /\ UNCHANGED <<callVars, pubsubVars, createVars>>

\* =========================================================== PubSubManager
Tasks == 1..NumTasks
\* what the user passes as a handler: four callables and one non-callable
Handlers == {"hA", "hB", "hNone", "hFail"}
NotCallable == "not-callable"
Messages == {"m1", "m2"}
\* int(time.time() * 1000) at the moment of a subscribe call
Millis == {0}

\* sub_id = f"sub_{channel}_{self._counter}_{int(time.time() * 1000)}"
SubId(channel, n, ms) == <<"sub", channel, n, ms>>
SubIds == {SubId(c, n, ms) : c \in Channels, n \in 1..MaxSubs, ms \in Millis}

\* What a user handler does with a message: return a value, return nothing
\* (None), or raise.
HandlerRun(h, message) ==
    CASE h = "hA" -> [raised |-> FALSE, value |-> "a", error |-> None]
      [] h = "hB" -> [raised |-> FALSE, value |-> "b", error |-> None]
      [] h = "hNone" -> [raised |-> FALSE, value |-> None, error |-> None]
      [] OTHER -> [raised |-> TRUE, value |-> None, error |-> "boom"]

NoRequest == [command |-> None, channel |-> None, location |-> None]
BuildSubscribeHeaders(channel, location) ==
    [command |-> "pubsub-subscribe", channel |-> channel, location |-> location]
BuildUnsubscribeHeaders(channel, location) ==
    [command |-> "pubsub-unsubscribe", channel |-> channel, location |-> location]

\* the locals of a handle_message call whose handlers are coroutines: the
\* message, the iterator of "for ... in self._handlers[channel].items()" (its
\* position and the size the dict had when the iterator was made), results,
\* errors, and the (sub_id, message) pairs the handlers were called with
NoLoop == [message |-> None, pos |-> 0, used |-> 0, results |-> <<>>,
           errors |-> <<>>, invoked |-> <<>>]

IdleTask == [pc |-> "idle", op |-> None, channel |-> None, sub_id |-> None,
             handler |-> None, keys |-> <<>>, request |-> NoRequest,
             reply |-> None, outcome |-> None, loop |-> NoLoop]

NoDispatch == [channel |-> None, message |-> None, results |-> <<>>,
               errors |-> <<>>, invoked |-> <<>>]

\* the keys of one channel's {sub_id: handler} dict, in insertion order
IdsOf(subs) == [i \in DOMAIN subs |-> subs[i].id]

\* self._handlers[channel][sub_id] = handler: a new key goes last, an
\* existing key keeps its place
SetHandler(subs, id, h) ==
    IF id \in Range(IdsOf(subs))
    THEN [i \in DOMAIN subs |->
             IF subs[i].id = id THEN [id |-> id, handler |-> h] ELSE subs[i]]
    ELSE Append(subs, [id |-> id, handler |-> h])

\* del self._handlers[channel][sub_id]
DelHandler(subs, id) == SelectSeq(subs, LAMBDA e : e.id # id)

\* (mutant of SubscribeNeedsRegistry) tell the registry on every subscribe
SubscribeAlwaysRegisters(hs, channel) == TRUE

\* subscribe: "if channel not in self._handlers"
SubscribeNeedsRegistry(hs, channel) == channel \notin DOMAIN hs

\* list(d.keys()) for a dict whose key order the model does not keep: every
\* order of the keys
KeyLists(d) ==
    {ks \in [1..Cardinality(DOMAIN d) -> DOMAIN d] :
        \A i, j \in DOMAIN ks : i # j => ks[i] # ks[j]}

\* a call that has returned or raised: its frame is gone, its outcome is kept
Finish(op, outcome) == [IdleTask EXCEPT !.op = op, !.outcome = outcome]

\* subscribe(channel, handler) run by coroutine t up to its await, or to its
\* end when it does not await
Subscribe(t, c, h, ms) ==
    /\ dispatch' = NoDispatch
    /\ IF h = NotCallable
       THEN /\ tasks' = [tasks EXCEPT ![t] = Finish("subscribe", "ValueError")]
            /\ UNCHANGED <<handlers, counter>>
       ELSE /\ counter < MaxSubs
            /\ counter' = counter + 1
            /\ LET id == SubId(c, counter + 1, ms)
               IN  IF SubscribeNeedsRegistry(handlers, c)
                   THEN /\ handlers' = Put(handlers, c, <<>>)
                        /\ tasks' = [tasks EXCEPT ![t] =
                               [IdleTask EXCEPT !.pc = "subscribe", !.op = "subscribe",
                                   !.channel = c, !.sub_id = id, !.handler = h,
                                   !.request = BuildSubscribeHeaders(c, service_location)]]
                   ELSE /\ handlers' = Put(handlers, c, SetHandler(handlers[c], id, h))
                        /\ tasks' = [tasks EXCEPT ![t] = Finish("subscribe", "returned")]

SubscribeCall(t, callables) ==
    \E c \in Channels, h \in callables \cup {NotCallable}, ms \in Millis :
        /\ tasks[t].pc = "idle"
        /\ Subscribe(t, c, h, ms)
        /\ UNCHANGED <<service_location, regSubs, other, wire, cacheVars, callVars, createVars>>

\* subscribe() after its await: self._handlers[channel][sub_id] = handler
SubscribeResume(t) ==
    LET me == tasks[t]
    IN  /\ me.pc = "subscribe"
        /\ me.reply # None
        /\ IF me.reply = "error"
           THEN /\ tasks' = [tasks EXCEPT ![t] =
                       Finish("subscribe", "HttpError")]
                /\ UNCHANGED handlers
           ELSE IF me.channel \notin DOMAIN handlers
           THEN /\ tasks' = [tasks EXCEPT ![t] =
                       Finish("subscribe", "KeyError")]
                /\ UNCHANGED handlers
           ELSE /\ handlers' = Put(handlers, me.channel,
                                   SetHandler(handlers[me.channel], me.sub_id, me.handler))
                /\ tasks' = [tasks EXCEPT ![t] =
                       Finish("subscribe", "returned")]
        /\ UNCHANGED <<counter, service_location, dispatch, regSubs, other, wire, cacheVars, callVars, createVars>>

\* (mutant of UnsubscribeKnown) only the channel is looked up
UnsubscribeKnownChannelOnly(hs, channel, sub_id) == channel \in DOMAIN hs

\* unsubscribe: the negation of
\* "channel not in self._handlers or sub_id not in self._handlers[channel]"
UnsubscribeKnown(hs, channel, sub_id) ==
    channel \in DOMAIN hs /\ sub_id \in Range(IdsOf(hs[channel]))

\* unsubscribe() up to its await, or to its end when it does not await
UnsubscribeCall(t) ==
    \E c \in Channels, id \in SubIds :
        /\ tasks[t].pc = "idle"
        /\ IF ~UnsubscribeKnown(handlers, c, id)
           THEN /\ tasks' = [tasks EXCEPT ![t] =
                       Finish("unsubscribe", "ValueError")]
                /\ UNCHANGED handlers
           ELSE LET rest == DelHandler(handlers[c], id)
                IN  IF Len(rest) = 0
                    THEN /\ handlers' = Del(handlers, c)
                         /\ tasks' = [tasks EXCEPT ![t] =
                                [IdleTask EXCEPT !.pc = "unsubscribe", !.op = "unsubscribe",
                                    !.channel = c, !.sub_id = id,
                                    !.request = BuildUnsubscribeHeaders(c, service_location)]]
                    ELSE /\ handlers' = Put(handlers, c, rest)
                         /\ tasks' = [tasks EXCEPT ![t] =
                                Finish("unsubscribe", "returned")]
        /\ dispatch' = NoDispatch
        /\ UNCHANGED <<counter, service_location, regSubs, other, wire, cacheVars, callVars, createVars>>

\* unsubscribe() after its await
UnsubscribeResume(t) ==
    LET me == tasks[t]
    IN  /\ me.pc = "unsubscribe"
        /\ me.reply # None
        /\ tasks' = [tasks EXCEPT ![t] =
               Finish("unsubscribe", IF me.reply = "error" THEN "HttpError" ELSE "returned")]
        /\ UNCHANGED <<handlers, counter, service_location, dispatch, regSubs, other, wire,
                       cacheVars, callVars, createVars>>

\* cleanup() run by coroutine t up to its first await, or to its end when
\* there is no channel: ks is list(self._handlers.keys())
Cleanup(t, ks) ==
    /\ tasks' = [tasks EXCEPT ![t] =
           IF Len(ks) = 0
           THEN Finish("cleanup", "returned")
           ELSE [IdleTask EXCEPT !.pc = "cleanup", !.op = "cleanup", !.keys = ks,
                    !.channel = ks[1],
                    !.request = BuildUnsubscribeHeaders(ks[1], service_location)]]
    /\ dispatch' = NoDispatch

CleanupCall(t) ==
    \E ks \in KeyLists(handlers) :
        /\ tasks[t].pc = "idle"
        /\ Cleanup(t, ks)
        /\ UNCHANGED <<handlers, counter, service_location, regSubs, other, wire,
                       cacheVars, callVars, createVars>>

\* (mutant of CleanupDelete) the channel's handlers are kept
CleanupKeep(hs, channel) == hs

\* cleanup: del self._handlers[channel]
CleanupDelete(hs, channel) == Del(hs, channel)

\* (mutant of CleanupSwallows) a failed exchange ends the loop
CleanupPropagates(reply) == reply # "error"

\* cleanup: "except Exception as e: logger.warning(...)" around the exchange
CleanupSwallows(reply) == TRUE

\* cleanup() after one await: the failure is logged and swallowed, the channel
\* is deleted, and the loop goes on to the next channel
CleanupResume(t) ==
    LET me == tasks[t]
        rest == Tail(me.keys)
    IN  /\ me.pc = "cleanup"
        /\ me.reply # None
        /\ IF ~CleanupSwallows(me.reply)
           THEN /\ tasks' = [tasks EXCEPT ![t] =
                       Finish("cleanup", "HttpError")]
                /\ UNCHANGED handlers
           ELSE IF me.channel \notin DOMAIN handlers
           THEN /\ tasks' = [tasks EXCEPT ![t] =
                       Finish("cleanup", "KeyError")]
                /\ UNCHANGED handlers
           ELSE /\ handlers' = CleanupDelete(handlers, me.channel)
                /\ tasks' = [tasks EXCEPT ![t] =
                       IF Len(rest) = 0
                       THEN Finish("cleanup", "returned")
                       ELSE [me EXCEPT !.keys = rest, !.channel = rest[1], !.reply = None,
                                !.request = BuildUnsubscribeHeaders(rest[1], service_location)]]
        /\ UNCHANGED <<counter, service_location, dispatch, regSubs, other, wire, cacheVars, callVars, createVars>>

\* The registry's handling of a subscribe / unsubscribe command
RegistryApply(subs, request) ==
    IF request.command = "pubsub-subscribe"
    THEN subs \cup {<<request.channel, request.location>>}
    ELSE IF request.command = "pubsub-unsubscribe"
    THEN subs \ {<<request.channel, request.location>>}
    ELSE subs

\* One awaited registry exchange is decided: the registry processes the
\* command and answers ("ok"), the command never reaches it or is refused
\* ("lost": HttpError or a network error), or it processes the command and the
\* answer is lost ("reply_lost": timeout).
RegistryExchange(t, outcomes) ==
    \E o \in outcomes :
        /\ tasks[t].pc \in {"subscribe", "unsubscribe", "cleanup"}
        /\ tasks[t].reply = None
        /\ regSubs' = IF o = "lost" THEN regSubs
                      ELSE RegistryApply(regSubs, tasks[t].request)
        /\ tasks' = [tasks EXCEPT ![t].reply = IF o = "ok" THEN "ok" ELSE "error"]
        /\ UNCHANGED <<handlers, counter, service_location, dispatch, other, wire,
                       cacheVars, callVars, createVars>>

RegistryAnswers(t) == RegistryExchange(t, {"ok"})
RegistryFails(t) == RegistryExchange(t, {"lost", "reply_lost"})

\* (mutant of HandleMessageLoop) stop at the first handler that raises
RECURSIVE HandleMessageLoopAbort(_, _, _)
HandleMessageLoopAbort(subs, message, acc) ==
    IF Len(subs) = 0 THEN acc
    ELSE LET e == Head(subs)
             r == HandlerRun(e.handler, message)
         IN  IF r.raised
             THEN [acc EXCEPT !.invoked = Append(@, e.id),
                              !.errors = Append(@, [subId |-> e.id, error |-> r.error,
                                                    status |-> 500])]
             ELSE HandleMessageLoopAbort(Tail(subs), message,
                     [acc EXCEPT !.invoked = Append(@, e.id),
                                 !.results = Append(@, r.value)])

\* handle_message: for sub_id, handler in self._handlers[channel].items()
RECURSIVE HandleMessageLoop(_, _, _)
HandleMessageLoop(subs, message, acc) ==
    IF Len(subs) = 0 THEN acc
    ELSE LET e == Head(subs)
             r == HandlerRun(e.handler, message)
         IN  HandleMessageLoop(Tail(subs), message,
                 IF r.raised
                 THEN [acc EXCEPT !.invoked = Append(@, e.id),
                                  !.errors = Append(@, [subId |-> e.id, error |-> r.error,
                                                        status |-> 500])]
                 ELSE [acc EXCEPT !.invoked = Append(@, e.id),
                                  !.results = Append(@, r.value)])

HandleMessageResult(hs, channel, message) ==
    IF channel \notin DOMAIN hs
    THEN [NoDispatch EXCEPT !.channel = channel, !.message = message,
                            !.errors = <<"No handlers for channel">>]
    ELSE HandleMessageLoop(hs[channel], message,
             [NoDispatch EXCEPT !.channel = channel, !.message = message])

\* handle_message with handlers that do not yield to the event loop
HandleMessage ==
    \E c \in Channels, m \in Messages :
        /\ dispatch' = HandleMessageResult(handlers, c, m)
        /\ UNCHANGED <<handlers, counter, service_location, tasks, regSubs, other, wire,
                       cacheVars, callVars, createVars>>

\* (mutant of IterationExhausted) the loop ends after its first handler
IterationExhaustedEarly(pos, used) == TRUE

\* the for statement has taken every item of the dict it iterates
IterationExhausted(pos, used) == pos = used

\* handle_message at the head of its for statement, the dict of the channel
\* having had the keys `keys` when the iterator was made: the frames the
\* coroutine can be in next, each with the value the call returns if it ends
\* there. A dict whose size differs from the iterator's
\* makes next() raise RuntimeError outside the try block; so does the dict of a
\* channel that unsubscribe emptied and deleted (its size is 0). A dict of the
\* same size with other keys was changed under the iterator: what the
\* iterator yields then depends on the dict's internal layout, which the model
\* does not keep, so every outcome is possible.
HandleMessageNext(hs, c, keys, loop) ==
    LET live == IF c \in DOMAIN hs THEN hs[c] ELSE <<>>
        raised == [task |-> Finish("handle_message", "RuntimeError"),
                   value |-> NoDispatch]
        returned == [task |-> Finish("handle_message", "returned"),
                     value |-> [channel |-> c, message |-> loop.message,
                                results |-> loop.results, errors |-> loop.errors,
                                invoked |-> loop.invoked]]
        called(e) ==
            [task |-> [IdleTask EXCEPT !.pc = "handle_message", !.op = "handle_message",
                          !.channel = c, !.sub_id = e.id, !.handler = e.handler,
                          !.keys = keys,
                          !.loop = [loop EXCEPT !.pos = @ + 1,
                                      !.invoked = Append(@, [subId |-> e.id,
                                                             message |-> loop.message])]],
             value |-> NoDispatch]
    IN  IF Len(live) # loop.used THEN {raised}
        ELSE IF IdsOf(live) = keys
        THEN IF IterationExhausted(loop.pos, loop.used) THEN {returned}
             ELSE {called(live[loop.pos + 1])}
        ELSE {raised, returned}
                 \cup {called(live[i]) : i \in {j \in DOMAIN live : loop.pos < MaxSubs}}

\* handle_message(channel, message) run by coroutine t up to the await of its
\* first handler, or to its end when there is no handler to await
HandleMessageBegin(t, messages) ==
    \E c \in Channels, m \in messages :
        /\ tasks[t].pc = "idle"
        /\ IF c \notin DOMAIN handlers
           THEN /\ tasks' = [tasks EXCEPT ![t] = Finish("handle_message", "returned")]
                /\ dispatch' = [NoDispatch EXCEPT !.channel = c, !.message = m,
                                    !.errors = <<"No handlers for channel">>]
           ELSE \E next \in HandleMessageNext(handlers, c, IdsOf(handlers[c]),
                                 [NoLoop EXCEPT !.message = m,
                                                !.used = Len(handlers[c])]) :
                    /\ tasks' = [tasks EXCEPT ![t] = next.task]
                    /\ dispatch' = next.value
        /\ UNCHANGED <<handlers, counter, service_location, regSubs, other, wire,
                       cacheVars, callVars, createVars>>

\* handle_message after "result = await result": the result or the error is
\* appended, then the for statement asks the iterator for the next item
HandleMessageResume(t) ==
    LET me == tasks[t]
        r == HandlerRun(me.handler, me.loop.message)
        loop == IF r.raised
                THEN [me.loop EXCEPT !.errors = Append(@, [subId |-> me.sub_id,
                                          error |-> r.error, status |-> 500])]
                ELSE [me.loop EXCEPT !.results = Append(@, r.value)]
    IN  /\ me.pc = "handle_message"
        /\ \E next \in HandleMessageNext(handlers, me.channel, me.keys, loop) :
               /\ tasks' = [tasks EXCEPT ![t] = next.task]
               /\ dispatch' = next.value
        /\ UNCHANGED <<handlers, counter, service_location, regSubs, other, wire,
                       cacheVars, callVars, createVars>>

\* PubSubManager(service_name, service_location): a second instance, made for
\* an endpoint at another location of the same process
OtherLocation == Location(2)
NoManager == [handlers |-> EmptyDict, counter |-> 0]

\* subscribe(channel, handler) on the second instance, from the call to its
\* return or its error; the registry answers or the exchange fails
OtherSubscribe ==
    \E c \in Channels, ms \in Millis, o \in {"ok", "lost"} :
        /\ other.counter < MaxSubs
        /\ LET id == SubId(c, other.counter + 1, ms)
           IN  IF SubscribeNeedsRegistry(other.handlers, c)
               THEN /\ regSubs' = IF o = "ok"
                                  THEN RegistryApply(regSubs,
                                           BuildSubscribeHeaders(c, OtherLocation))
                                  ELSE regSubs
                    /\ other' = [counter |-> other.counter + 1,
                                 handlers |-> Put(other.handlers, c,
                                     IF o = "ok" THEN SetHandler(<<>>, id, "hA")
                                     ELSE <<>>)]
               ELSE /\ other' = [counter |-> other.counter + 1,
                                 handlers |-> Put(other.handlers, c,
                                     SetHandler(other.handlers[c], id, "hA"))]
                    /\ UNCHANGED regSubs
        /\ UNCHANGED <<handlers, counter, service_location, tasks, dispatch, wire,
                       cacheVars, callVars, createVars>>

\* no handle_message call is between its first and its last handler
NoDispatchRunning == \A t \in Tasks : tasks[t].pc # "handle_message"

\* ===================================== create_service / create_subscription_service
OwnName == "a"
\* the channel_map argument of create_subscription_service: its keys in order
ChannelMaps == {<<"c1">>, <<"c1", "c2">>}

\* a name argument: a str with its characters, or None
Str(chars) == [type |-> "str", chars |-> chars]
NoName == [type |-> "NoneType", chars |-> <<>>]
\* OwnName as the caller writes it, and names create_service must refuse
GoodName == Str(<<"a">>)
BadNames == {Str(<<>>), Str(<<"a", " ", "b">>), Str(<<" ">>), NoName}
\* the channel_map argument with its handlers, in the order of its items
MapOf(channels, hs) == [i \in DOMAIN channels |-> [channel |-> channels[i], handler |-> hs[i]]]
GoodMaps == {MapOf(m, [i \in DOMAIN m |-> "hA"]) : m \in ChannelMaps}
BadMaps == {<<>>, MapOf(<<"c1">>, <<NotCallable>>),
            MapOf(<<"c1", "c2">>, <<"hA", NotCallable>>)}
\* the arguments of create_service (name, handler) and of
\* create_subscription_service (channel_map)
ServiceArgs(names, hs) ==
    [name : names, handler : hs, channel_map : {<<>>}]
SubscriptionArgs(maps) ==
    [name : {NoName}, handler : {None}, channel_map : maps]
NoArgs == [name |-> NoName, handler |-> None, channel_map |-> <<>>]

\* callable(handler)
Callable(h) == h # NotCallable

\* (mutant of ValidateServiceName) only the empty name is refused
ValidateServiceNameNonEmpty(name) ==
    IF name.type # "str" \/ Len(name.chars) = 0 THEN "ValueError" ELSE None

\* _validate_service_name: "if not name or not isinstance(name, str)",
\* "if ' ' in name"
ValidateServiceName(name) ==
    IF Len(name.chars) = 0 \/ name.type # "str" THEN "ValueError"
    ELSE IF " " \in Range(name.chars) THEN "ValueError"
    ELSE None

\* create_service before its first await: the handler check (name-first
\* calling style), then _validate_service_name
ValidateService(args) ==
    IF ~Callable(args.handler) THEN "ValueError"
    ELSE ValidateServiceName(args.name)

\* create_subscription_service before its first await: "if not channel_map",
\* then "for channel, handler in channel_map.items(): if not callable(handler)"
ValidateSubscription(args) ==
    IF Len(args.channel_map) = 0 THEN "ValueError"
    ELSE IF \E i \in DOMAIN args.channel_map : ~Callable(args.channel_map[i].handler)
    THEN "ValueError"
    ELSE None

NoCreation == [pc |-> "none", kind |-> None, retry_limit |-> 0, attempts |-> 0,
               args |-> NoArgs,
               location |-> None, port |-> 0, todo |-> <<>>,
               error |-> None, failed_at |-> None,
               setups |-> 0, binds |-> 0, registers |-> 0,
               register_location |-> None]
NoServer == [state |-> "none", port |-> 0, handler |-> None]

\* the registry's answer to service-register: its topology, which holds the
\* new endpoint; a registry may leave tables out
Snapshots(name, location) ==
    {[services |-> (name :> <<location>>), addresses |-> (location :> name),
      subscriptions |-> EmptyDict],
     [services |-> (name :> <<location>>) @@ ("b" :> <<Location(1)>>)]}

\* update_from_registry, one table: "if key in registry_data: self.<key> = ..."
UpdatedTable(table, registry_data, key) ==
    IF key \in DOMAIN registry_data THEN registry_data[key] ELSE table

\* update_from_registry
UpdateFromRegistry(registry_data) ==
    /\ services' = UpdatedTable(services, registry_data, "services")
    /\ addresses' = UpdatedTable(addresses, registry_data, "addresses")
    /\ subscriptions' = UpdatedTable(subscriptions, registry_data, "subscriptions")

\* update_from_registry called on a cache in any state
UpdateFromRegistryCall ==
    \E location \in Locations :
        \E registry_data \in Snapshots(OwnName, location) :
            /\ UpdateFromRegistry(registry_data)
            /\ UNCHANGED <<callVars, pubsubVars, createVars>>

\* the exception leaves create_*: the frame is gone, the error reaches the caller
Raise(frame, where, error) ==
    [frame EXCEPT !.pc = "failed", !.failed_at = where, !.error = error]

\* (mutant of RetryAllowed) attempts > retry_limit raises
RetryAllowedOffByOne(attempts, retry_limit) == ~(attempts > retry_limit)

\* "if attempts >= retry_limit: raise RegistrationError"
RetryAllowed(attempts, retry_limit) == ~(attempts >= retry_limit)

\* (mutant of RetryAfterInUse) bind the same port again without a new setup
RetryBindSamePort(frame) == [frame EXCEPT !.pc = "bind"]

\* "Request new port": another setup command
RetryAfterInUse(frame) == [frame EXCEPT !.pc = "setup", !.setups = @ + 1]

\* create_service(name, handler) / create_subscription_service(channel_map) up
\* to the first await: the arguments are validated, then the setup command is
\* sent
CreateFrame(limit, args) ==
    LET kind == IF args.handler = None THEN "subscription" ELSE "service"
        frame == [NoCreation EXCEPT !.kind = kind, !.retry_limit = limit,
                                    !.args = args]
        refused == IF kind = "service" THEN ValidateService(args)
                   ELSE ValidateSubscription(args)
    IN  IF refused # None
        THEN Raise(frame, "validate", refused)
        ELSE [frame EXCEPT !.pc = "setup", !.setups = 1,
                 !.todo = [i \in DOMAIN args.channel_map |->
                              args.channel_map[i].channel]]

CreateCallArgs(limits, argset) ==
    \E limit \in limits, args \in argset :
        /\ cr.pc = "none"
        /\ cr' = CreateFrame(limit, args)
        /\ UNCHANGED <<server, endpointVars, cacheVars, callVars, pubsubVars>>

\* the calls with arguments that pass validation
GoodArgs(kinds) ==
    (IF "service" \in kinds THEN ServiceArgs({GoodName}, {"hA"}) ELSE {})
        \cup (IF "subscription" \in kinds THEN SubscriptionArgs(GoodMaps) ELSE {})

CreateCallOf(kinds, limits) == CreateCallArgs(limits, GoodArgs(kinds))

CreateCallWith(limits) == CreateCallOf({"service", "subscription"}, limits)

\* every argument the model has, the refused ones included
CreateCallAnyArgs ==
    CreateCallArgs({1}, ServiceArgs({GoodName} \cup BadNames, {"hA", NotCallable})
                            \cup SubscriptionArgs(GoodMaps \cup BadMaps))

\* with YAMF_REGISTRATION_RETRY_LIMIT anywhere in 1..MaxRetryLimit
CreateCall == CreateCallWith(1..MaxRetryLimit)

\* (mutant of ManagerLocation) the manager keeps the location it was made with
ManagerLocationNotUpdated(attempts, current, location) ==
    IF attempts = 0 THEN location ELSE current

\* the service_location of the subscription endpoint's PubSubManager after a
\* setup exchange: PubSubManager(name, location) after the first one,
\* "pubsub.service_location = location" after a retry
ManagerLocation(attempts, current, location) == location

\* the setup exchange ends: location, port = int(location.split(':')[-1]); the
\* subscription endpoint's PubSubManager takes the location
CreateSetupReply ==
    /\ cr.pc = "setup"
    /\ \/ \E location \in Locations :
            /\ cr' = [cr EXCEPT !.pc = "bind", !.location = location,
                                !.port = PortOf(location)]
            /\ service_location' =
                   IF cr.kind = "subscription"
                   THEN ManagerLocation(cr.attempts, service_location, location)
                   ELSE service_location
       \/ \E error \in {"HttpError", "Exception"} :
            /\ cr' = Raise(cr, "setup", error)
            /\ UNCHANGED service_location
    /\ UNCHANGED <<server, endpointVars, cacheVars, callVars, handlers, counter, tasks,
                   dispatch, regSubs, other, wire>>

\* one turn of "while server is None": create_http_server(port, handler), and
\* what follows it without an await in between (the register command, or the
\* next setup command, or the raise)
CreateBind ==
    /\ cr.pc = "bind"
    /\ \/ /\ server' = [state |-> "listening", port |-> cr.port,
                         handler |-> IF cr.kind = "service"
                                     THEN "cache_aware_handler"
                                     ELSE "subscription_handler"]
          /\ cr' = [cr EXCEPT !.pc = "register", !.binds = @ + 1, !.registers = @ + 1,
                               !.register_location = cr.location]
       \/ /\ LET tried == [cr EXCEPT !.binds = @ + 1, !.attempts = @ + 1]
             IN  cr' = IF RetryAllowed(tried.attempts, tried.retry_limit)
                       THEN RetryAfterInUse(tried)
                       ELSE Raise(tried, "bind", "RegistrationError")
          /\ UNCHANGED server
       \/ /\ cr' = Raise([cr EXCEPT !.binds = @ + 1], "bind", "OSError")
          /\ UNCHANGED server
    /\ UNCHANGED <<endpointVars, cacheVars, callVars, pubsubVars>>

\* the register exchange ends: the snapshot goes into the cache and a service
\* endpoint is returned, a subscription endpoint starts its first subscribe;
\* on failure the server is stopped and RegistrationError raised
CreateRegisterReply ==
    /\ cr.pc = "register"
    /\ \/ \E registry_data \in Snapshots(OwnName, cr.location) :
            /\ UpdateFromRegistry(registry_data)
            /\ IF cr.kind = "service"
               THEN /\ cr' = [cr EXCEPT !.pc = "registered"]
                    /\ UNCHANGED <<handlers, counter, tasks, dispatch>>
               ELSE /\ cr' = [cr EXCEPT !.pc = "subscribing"]
                    /\ \E ms \in Millis : Subscribe(1, Head(cr.todo), "hA", ms)
            /\ UNCHANGED server
       \/ /\ server' = [server EXCEPT !.state = "stopped"]
          /\ cr' = Raise(cr, "register", "RegistrationError")
          /\ UNCHANGED <<cacheVars, handlers, counter, tasks, dispatch>>
    /\ UNCHANGED <<endpointVars, callVars, service_location, regSubs, other, wire>>

\* "for channel, handler in channel_map.items(): await pubsub.subscribe(...)":
\* one subscribe has ended; its error leaves create_subscription_service as it
\* is, otherwise the next subscribe starts or the endpoint is returned
CreateSubscribed ==
    /\ cr.pc = "subscribing"
    /\ tasks[1].pc = "idle"
    /\ IF tasks[1].outcome # "returned"
       THEN /\ cr' = Raise(cr, "subscribe", tasks[1].outcome)
            /\ UNCHANGED <<handlers, counter, tasks, dispatch>>
       ELSE IF Len(cr.todo) = 1
       THEN /\ cr' = [cr EXCEPT !.pc = "registered", !.todo = <<>>]
            /\ UNCHANGED <<handlers, counter, tasks, dispatch>>
       ELSE /\ cr' = [cr EXCEPT !.todo = Tail(@)]
            /\ \E ms \in Millis : Subscribe(1, cr.todo[2], "hA", ms)
    /\ UNCHANGED <<server, endpointVars, cacheVars, callVars, service_location, regSubs, other, wire>>

\* ============================================ the endpoint's listener (inbound)
\* what the yamf-* headers of an inbound request can hold; a header the sender
\* left out is None, and "undefined" is what the registry writes for a field
\* it does not have
HeaderChannels == {None, "undefined", "c1"}
HeaderNames == {None, "undefined", "b"}
HeaderLocations == {Location(1)}
\* the request body as the listener reads it: empty, or the JSON text of a value
Bodies == {[kind |-> "empty", value |-> None], [kind |-> "json", value |-> "p1"]}

\* the registry's cache-update pushes (they have no body)
CacheUpdateRequests ==
    [command : {"cache-update"}, pubsub_channel : HeaderChannels,
     service_name : HeaderNames, service_location : HeaderLocations,
     body : {[kind |-> "empty", value |-> None]}]

\* direct calls (no command) and message deliveries, which may carry the
\* other yamf-* headers as well
OtherRequests ==
    [command : {None, "pubsub-publish"}, pubsub_channel : {None, "c1"},
     service_name : {"b"}, service_location : {Location(1)}, body : Bodies]

InboundRequests == CacheUpdateRequests \cup OtherRequests

\* request_handler of create_http_server: "Empty body = None", else json.loads
ParseBody(body) == IF body.kind = "empty" THEN None ELSE body.value

\* what the user's service handler does with a payload
UserHandlerOutcomes ==
    {[raised |-> FALSE, value |-> "r1", error |-> None, status_code |-> 0],
     [raised |-> FALSE, value |-> None, error |-> None, status_code |-> 0],
     [raised |-> TRUE, value |-> None, error |-> "Exception", status_code |-> 0]}

NoResponse == [status |-> 0, kind |-> None, value |-> None, about |-> <<>>]

\* request_handler of create_http_server: the handler's outcome as a response
ToResponse(out) ==
    IF out.raised
    THEN [NoResponse EXCEPT
             !.status = IF out.error = "HttpError" THEN out.status_code ELSE 500,
             !.kind = "error", !.value = out.error]
    ELSE IF out.value = None
    THEN [NoResponse EXCEPT !.status = 204, !.kind = "no-content"]
    ELSE [NoResponse EXCEPT !.status = 200, !.kind = "result", !.value = out.value]

\* cache_aware_handler's return value for a cache update
Acknowledgement(req) ==
    [NoResponse EXCEPT !.status = 200, !.kind = "cache_updated",
        !.about = <<req.pubsub_channel, req.service_name, req.service_location>>]

NoInbound ==
    [handled_by |-> None, before |-> None, before_result |-> None,
     request |-> [command |-> None, pubsub_channel |-> None, service_name |-> None,
                  service_location |-> None, body |-> [kind |-> "empty", value |-> None]],
     handler_payload |-> None, response |-> NoResponse]

\* is_cache_update_request / is_subscription_message
IsCacheUpdateRequest(req) == req.command = "cache-update"
IsSubscriptionMessage(req) == req.command = "pubsub-publish"

\* "x and x != 'undefined'"
Present(v) == Truthy(v) /\ v # "undefined"

\* (mutant of CacheUpdate) "if ... if" instead of "if ... elif": a request naming
\* a channel and a service updates both tables
CacheUpdateBoth(req) ==
    /\ subscriptions' = IF Present(req.pubsub_channel)
                        THEN AddSubscriptionSubs(subscriptions, req.pubsub_channel,
                                                 req.service_location)
                        ELSE subscriptions
    /\ services' = IF Present(req.service_name)
                   THEN AddServiceServices(services, req.service_name, req.service_location)
                   ELSE services
    /\ addresses' = IF Present(req.service_name)
                    THEN AddServiceAddresses(addresses, req.service_name, req.service_location)
                    ELSE addresses

\* cache_aware_handler: "Update local cache"
CacheUpdate(req) ==
    IF Present(req.pubsub_channel)
    THEN add_subscription(req.pubsub_channel, req.service_location)
    ELSE IF Present(req.service_name)
    THEN add_service(req.service_name, req.service_location)
    ELSE UNCHANGED cacheVars

\* has_channel
HasChannel(hs, channel) == channel \in DOMAIN hs /\ Len(hs[channel]) > 0

\* what the preprocessing step given to before() does with a payload: return
\* a payload, return nothing, or raise
PreprocessingOutcomes ==
    {[raised |-> FALSE, value |-> "q1", error |-> None, status_code |-> 0],
     [raised |-> FALSE, value |-> None, error |-> None, status_code |-> 0],
     [raised |-> TRUE, value |-> None, error |-> "Exception", status_code |-> 0]}

\* cache_aware_handler(payload, request), and behind it the user's handler;
\* before and result tell what a preprocessing step in front of it did
CacheAwareHandler(req, payload, out, before, result) ==
    IF IsCacheUpdateRequest(req)
    THEN /\ CacheUpdate(req)
         /\ inbound' = [handled_by |-> "cache", before |-> before,
                        before_result |-> result, request |-> req,
                        handler_payload |-> None, response |-> Acknowledgement(req)]
    ELSE /\ UNCHANGED cacheVars
         /\ inbound' = [handled_by |-> "user", before |-> before,
                        before_result |-> result, request |-> req,
                        handler_payload |-> payload, response |-> ToResponse(out)]

\* (mutant of BeforeSkipsHandler) the main handler runs whatever the step gave
BeforeNeverSkips(result) == FALSE

\* preprocessing_handler: "if result is None: return None"
BeforeSkipsHandler(result) == result = None

\* preprocessing_handler(payload, request), installed by before() in front of
\* the handler the server had (original_handler)
PreprocessingHandler(req, payload, pre, out) ==
    IF pre.raised
    THEN /\ UNCHANGED cacheVars
         /\ inbound' = [handled_by |-> "before", before |-> "raised",
                        before_result |-> None, request |-> req,
                        handler_payload |-> None, response |-> ToResponse(pre)]
    ELSE IF BeforeSkipsHandler(pre.value)
    THEN /\ UNCHANGED cacheVars
         /\ inbound' = [handled_by |-> "before", before |-> "returned",
                        before_result |-> pre.value, request |-> req,
                        handler_payload |-> None, response |-> ToResponse(pre)]
    ELSE CacheAwareHandler(req, pre.value, out, "returned", pre.value)

\* service.before(handler) on a returned service endpoint:
\* self._server.handler = preprocessing_handler
Before ==
    /\ cr.pc = "registered"
    /\ cr.kind = "service"
    /\ server.handler = "cache_aware_handler"
    /\ server' = [server EXCEPT !.handler = "preprocessing_handler"]
    /\ inbound' = NoInbound
    /\ UNCHANGED <<cr, term, route, peer, cacheVars, callVars, pubsubVars>>

\* A request reaches the listener of a service endpoint: request_handler
\* parses the body and calls the handler the server holds at that moment
ServiceRequest ==
    \E req \in InboundRequests, out \in UserHandlerOutcomes,
       pre \in PreprocessingOutcomes :
        /\ server.state = "listening"
        /\ cr.kind = "service"
        /\ IF server.handler = "preprocessing_handler"
           THEN PreprocessingHandler(req, ParseBody(req.body), pre, out)
           ELSE CacheAwareHandler(req, ParseBody(req.body), out, None, None)
        /\ UNCHANGED <<cr, server, term, route, peer, callVars, pubsubVars>>

\* A request reaches the listener of a subscription endpoint:
\* subscription_handler
SubscriptionRequest ==
    \E req \in InboundRequests :
        /\ server.state = "listening"
        /\ cr.kind = "subscription"
        /\ IF IsSubscriptionMessage(req)
           THEN IF Truthy(req.pubsub_channel) /\ HasChannel(handlers, req.pubsub_channel)
                THEN /\ dispatch' = HandleMessageResult(handlers, req.pubsub_channel,
                                                        ParseBody(req.body))
                     /\ inbound' = [handled_by |-> "pubsub", before |-> None, before_result |-> None, request |-> req,
                                    handler_payload |-> ParseBody(req.body),
                                    response |-> [NoResponse EXCEPT !.status = 200,
                                                     !.kind = "dispatch"]]
                ELSE /\ inbound' = [handled_by |-> "refused", before |-> None, before_result |-> None, request |-> req,
                                    handler_payload |-> None,
                                    response |-> [NoResponse EXCEPT !.status = 200,
                                                     !.kind = "error",
                                                     !.value = "No handler for channel"]]
                     /\ UNCHANGED dispatch
           ELSE /\ inbound' = [handled_by |-> "refused", before |-> None, before_result |-> None, request |-> req,
                               handler_payload |-> None,
                               response |-> [NoResponse EXCEPT !.status = 200,
                                                !.kind = "error",
                                                !.value = "This is a subscription-only service"]]
                /\ UNCHANGED dispatch
        /\ UNCHANGED <<cr, server, term, route, peer, cacheVars, callVars,
                       handlers, counter, service_location, tasks, regSubs, other, wire>>

\* ============================== a handler that calls a dependent service
\* what the dependent service's handler does with the payload: return a
\* value, raise HttpError(status, ...), raise another YamfError (which carries
\* a status_code as well), or raise an exception that carries none
PeerHandlerOutcomes ==
    {[raised |-> FALSE, value |-> "r1", error |-> None, status_code |-> 0],
     [raised |-> TRUE, value |-> None, error |-> "HttpError", status_code |-> 418],
     [raised |-> TRUE, value |-> None, error |-> "ServiceNotFoundError",
      status_code |-> 404],
     [raised |-> TRUE, value |-> None, error |-> "Exception", status_code |-> 0]}

NoPeer == [handled |-> FALSE,
           outcome |-> [raised |-> FALSE, value |-> None, error |-> None,
                        status_code |-> 0]]

\* the response as http_request of the caller reads it: status and text
OnTheWire(response) == [status |-> response.status, body |-> response.value]

\* an exception leaving the user's handler, as request_handler catches it
Uncaught(error) ==
    [raised |-> TRUE, value |-> None, error |-> error.type,
     status_code |-> IF error.type = "Exception" THEN 0 ELSE error.status_code]

\* the request is being handled: the user's handler awaits self.call(...)
AwaitsDependency ==
    /\ inbound.handled_by = "user"
    /\ inbound.response = NoResponse

\* A request without a command reaches the listener of a service endpoint
\* whose handler is "return await self.call(name, payload)": the handler runs
\* up to the await of the exchange, or to the raise of call_service_with_cache
CallerRequest ==
    \E req \in OtherRequests, name \in Names :
        /\ server.state = "listening"
        /\ server.handler = "cache_aware_handler"
        /\ cr.kind = "service"
        /\ req.command = None
        /\ ~AwaitsDependency
        /\ \E out \in CallWithCacheOutcomes(services, name, ParseBody(req.body)) :
               /\ call' = out.call
               /\ exchanges' = out.exchanges
               /\ inbound' = [handled_by |-> "user", before |-> None,
                              before_result |-> None, request |-> req,
                              handler_payload |-> ParseBody(req.body),
                              response |-> IF out.call.pc = "raised"
                                           THEN ToResponse(Uncaught(out.call.error))
                                           ELSE NoResponse]
        /\ peer' = NoPeer
        /\ UNCHANGED <<cr, server, term, route, stub, cacheVars, pubsubVars>>

\* The dependent service's listener handles the call (request_handler around
\* its user handler) and http_request of the caller ends; or the exchange
\* fails on the network
PeerAnswers ==
    /\ AwaitsDependency
    /\ call.pc = "awaiting"
    /\ \/ \E out \in PeerHandlerOutcomes :
            LET resp == OnTheWire(ToResponse(out))
                got == HttpRequestOutcome(resp)
            IN  /\ peer' = [handled |-> TRUE, outcome |-> out]
                /\ exchanges' = [exchanges EXCEPT ![Len(exchanges)].response = resp]
                /\ call' = IF got.raised
                           THEN [call EXCEPT !.pc = "raised", !.error = got.error]
                           ELSE [call EXCEPT !.pc = "returned",
                                              !.result = CallReturnValue(got.value)]
       \/ /\ peer' = NoPeer
          /\ exchanges' = [exchanges EXCEPT ![Len(exchanges)].response =
                              [status |-> 0, body |-> None]]
          /\ call' = [call EXCEPT !.pc = "raised", !.error = TransportException]
    /\ UNCHANGED <<cr, server, inbound, term, route, stub, cacheVars, pubsubVars>>

\* self.call(...) has ended: the handler returns its value or lets its
\* exception go, and request_handler makes the response
CallerReturns ==
    /\ AwaitsDependency
    /\ call.pc \in {"returned", "raised"}
    /\ inbound' = [inbound EXCEPT !.response =
           ToResponse(IF call.pc = "raised"
                      THEN Uncaught(call.error)
                      ELSE [raised |-> FALSE, value |-> call.result, error |-> None,
                            status_code |-> 0])]
    /\ UNCHANGED <<cr, server, term, route, peer, callVars, cacheVars, pubsubVars>>

\* ================================================================ terminate()
NoTerminate == [pc |-> "none", log |-> <<>>, unregister |-> None, error |-> None,
                unregister_location |-> None]

\* (mutant of UnregisterFailure) the failed unregister exchange is re-raised
UnregisterFailurePropagates(reply) == IF reply = "error" THEN "raise" ELSE "go on"

\* terminate: "except Exception as e: logger.error(...)" around the unregister
\* exchange
UnregisterFailure(reply) == "go on"

\* (mutant of TerminateBegin) a subscription endpoint sends the unregister
\* command without pubsub.cleanup() before it
TerminateBeginWithoutCleanup ==
    /\ inbound' = NoInbound
    /\ term' = [term EXCEPT !.pc = "unregister", !.log = <<"unregister">>,
                             !.unregister_location = cr.location]
    /\ UNCHANGED <<tasks, dispatch>>

\* service.terminate() up to its first await: a service endpoint sends the
\* unregister command, a subscription endpoint starts pubsub.cleanup()
TerminateBegin ==
    /\ inbound' = NoInbound
    /\ IF cr.kind = "service"
       THEN /\ term' = [term EXCEPT !.pc = "unregister", !.log = <<"unregister">>,
                                     !.unregister_location = cr.location]
            /\ UNCHANGED <<tasks, dispatch>>
       ELSE /\ tasks[1].pc = "idle"
            /\ term' = [term EXCEPT !.pc = "cleanup", !.log = <<"cleanup">>]
            /\ \E ks \in KeyLists(handlers) : Cleanup(1, ks)

TerminateCall ==
    /\ cr.pc = "registered"
    /\ term.pc = "none"
    /\ TerminateBegin
    /\ UNCHANGED <<cr, server, route, peer, cacheVars, callVars, handlers, counter,
                   service_location, regSubs, other, wire>>

\* pubsub.cleanup() has ended: its error leaves terminate() as it is, otherwise
\* the unregister command is sent
TerminateCleaned ==
    /\ term.pc = "cleanup"
    /\ tasks[1].pc = "idle"
    /\ term' = IF tasks[1].outcome = "returned"
               THEN [term EXCEPT !.pc = "unregister", !.log = Append(@, "unregister"),
                                 !.unregister_location = cr.location]
               ELSE [term EXCEPT !.pc = "raised", !.error = tasks[1].outcome]
    /\ UNCHANGED <<cr, server, inbound, route, peer, cacheVars, callVars, pubsubVars>>

\* the unregister exchange ends, well or not:
\* self._state.remove_service(self.name, self.location), then the stop begins
TerminateUnregisterReply ==
    \E reply \in {"ok", "error"} :
        /\ term.pc = "unregister"
        /\ IF UnregisterFailure(reply) = "raise"
           THEN /\ term' = [term EXCEPT !.pc = "raised", !.unregister = reply,
                                         !.error = "Exception"]
                /\ UNCHANGED cacheVars
           ELSE /\ term' = [term EXCEPT !.pc = "stopping", !.unregister = reply,
                                         !.log = Append(@, "remove")]
                /\ remove_service(OwnName, cr.location)
        /\ UNCHANGED <<cr, server, inbound, route, peer, callVars, pubsubVars>>

\* await self._server.stop() ends and terminate() returns
TerminateStopped ==
    /\ term.pc = "stopping"
    /\ server' = [server EXCEPT !.state = "stopped"]
    /\ term' = [term EXCEPT !.pc = "returned", !.log = Append(@, "stop")]
    /\ dispatch' = NoDispatch
    /\ inbound' = NoInbound
    /\ UNCHANGED <<cr, route, peer, cacheVars, callVars, handlers, counter,
                   service_location, tasks, regSubs, other, wire>>

\* =============================================================== create_route
NoRoute == [pc |-> "none", given |-> None, service |-> FALSE, commands |-> 0,
            result |-> None, error |-> None, status_code |-> 0]

\* create_service(service_or_handler), function-first: the name is the
\* function's __name__
FunctionFirstArgs == [name |-> GoodName, handler |-> "hA", channel_map |-> <<>>]

\* (mutant of RouteCleanup) the created service is left running
RouteNoCleanup(service) == FALSE

\* create_route: "if service: await service.terminate()"
RouteCleanup(service) == service

\* "raise YamfError(500, f'Failed to register route: {e}') from e"
RouteRaise(frame) ==
    [frame EXCEPT !.pc = "raised", !.error = "YamfError", !.status_code = 500]

\* create_route(path, service_or_handler) up to its first await: with a
\* handler function create_service begins, with a service name the
\* route-register command is sent
CreateRouteCall ==
    \E given \in {"handler", "name"}, limit \in 1..MaxRetryLimit :
        /\ route.pc = "none"
        /\ cr.pc = "none"
        /\ IF given = "handler"
           THEN /\ route' = [NoRoute EXCEPT !.pc = "create_service", !.given = given]
                /\ cr' = CreateFrame(limit, FunctionFirstArgs)
           ELSE /\ route' = [NoRoute EXCEPT !.pc = "route-register", !.given = given,
                                !.commands = 1]
                /\ UNCHANGED cr
        /\ UNCHANGED <<server, inbound, term, peer, cacheVars, callVars, pubsubVars>>

\* create_service has ended: its error leaves create_route as it is, otherwise
\* the route-register command is sent for service.name
RouteServiceCreated ==
    /\ route.pc = "create_service"
    /\ cr.pc \in {"registered", "failed"}
    /\ route' = IF cr.pc = "failed"
                THEN [route EXCEPT !.pc = "raised", !.error = cr.error]
                ELSE [route EXCEPT !.pc = "route-register", !.service = TRUE,
                                   !.commands = @ + 1]
    /\ UNCHANGED <<cr, server, inbound, term, peer, cacheVars, callVars, pubsubVars>>

\* the route-register exchange ends: the service (or None) is returned, or the
\* created service's terminate() begins, or YamfError is raised at once
RouteRegisterReply ==
    \E reply \in {"ok", "error"} :
        /\ route.pc = "route-register"
        /\ IF reply = "ok"
           THEN /\ route' = [route EXCEPT !.pc = "returned",
                                !.result = IF route.service THEN "service" ELSE None]
                /\ UNCHANGED <<inbound, term, tasks, dispatch>>
           ELSE IF RouteCleanup(route.service)
           THEN /\ route' = [route EXCEPT !.pc = "terminate"]
                /\ TerminateBegin
           ELSE /\ route' = RouteRaise(route)
                /\ UNCHANGED <<inbound, term, tasks, dispatch>>
        /\ UNCHANGED <<cr, server, peer, cacheVars, callVars, handlers, counter,
                       service_location, regSubs, other, wire>>

\* service.terminate() has ended: YamfError is raised
RouteTerminated ==
    /\ route.pc = "terminate"
    /\ term.pc \in {"returned", "raised"}
    /\ route' = IF term.pc = "returned"
                THEN RouteRaise(route)
                ELSE [route EXCEPT !.pc = "raised", !.error = term.error]
    /\ UNCHANGED <<cr, server, inbound, term, peer, cacheVars, callVars, pubsubVars>>

\* ================================================================== specs
Init ==
    /\ services = EmptyDict
    /\ addresses = EmptyDict
    /\ subscriptions = EmptyDict
    /\ call = IdleCall
    /\ exchanges = <<>>
    /\ stub = NoStub
    /\ handlers = EmptyDict
    /\ counter = 0
    /\ service_location = Location(1)
    /\ tasks = [t \in Tasks |-> IdleTask]
    /\ dispatch = NoDispatch
    /\ regSubs = {}
    /\ cr = NoCreation
    /\ server = NoServer
    /\ inbound = NoInbound
    /\ term = NoTerminate
    /\ route = NoRoute
    /\ peer = NoPeer
    /\ other = NoManager
    /\ wire = NoWire

\* The Discovery Cache alone: every mutation, any order, any arguments
NextCache ==
    \/ AddService
    \/ RemoveService
    \/ AddSubscription
    \/ RemoveSubscription
    \/ Clear
    \/ UpdateFromRegistryCall

CacheSpec == Init /\ [][NextCache]_vars

\* The services and addresses tables alone: every mutation of them, any order
NextServiceCache ==
    \/ AddService
    \/ RemoveService
    \/ Clear
    \/ UpdateFromRegistryCall

ServiceCacheSpec == Init /\ [][NextServiceCache]_vars

\* The Discovery Cache changed by its four incremental calls only, from the
\* empty cache
NextCacheCalls ==
    \/ AddService
    \/ RemoveService
    \/ AddSubscription
    \/ RemoveSubscription

CacheCallsSpec == Init /\ [][NextCacheCalls]_vars

\* The Call Dispatcher over a cache that changes between and during calls
NextCall ==
    \/ AddService
    \/ RemoveService
    \/ Clear
    \/ CallWithCacheBegin
    \/ CallServiceBegin
    \/ CallEnd

CallSpec == Init /\ [][NextCall]_vars

\* One ServiceContext: attribute lookups, stub invocations and call() over a
\* cache that gains and loses services
NextContext ==
    \/ ContextAddService
    \/ Clear
    \/ ContextGetAttr
    \/ StubInvoke
    \/ ContextCall
    \/ CallEnd

ContextSpec == Init /\ [][NextContext]_vars

\* One PubSubManager called by one coroutine at a time, every registry
\* exchange answered: sequential, successful subscribe / unsubscribe calls
NextSeqPubSub ==
    \/ SubscribeCall(1, Handlers)
    \/ SubscribeResume(1)
    \/ UnsubscribeCall(1)
    \/ UnsubscribeResume(1)
    \/ RegistryAnswers(1)
    \/ HandleMessage

SeqPubSubSpec == Init /\ [][NextSeqPubSub]_vars

\* One PubSubManager called by concurrent coroutines, with registry exchanges
\* that may fail
NextPubSub ==
    \/ \E t \in Tasks : SubscribeCall(t, {"hA"})
    \/ \E t \in Tasks : SubscribeResume(t)
    \/ \E t \in Tasks : UnsubscribeCall(t)
    \/ \E t \in Tasks : UnsubscribeResume(t)
    \/ \E t \in Tasks : CleanupCall(t)
    \/ \E t \in Tasks : CleanupResume(t)
    \/ \E t \in Tasks : RegistryAnswers(t)
    \/ \E t \in Tasks : RegistryFails(t)

PubSubSpec == Init /\ [][NextPubSub]_vars

\* One PubSubManager called by one coroutine at a time, with registry
\* exchanges that may fail: subscribe, unsubscribe and cleanup calls
NextSoloPubSub ==
    \/ SubscribeCall(1, {"hA"})
    \/ SubscribeResume(1)
    \/ UnsubscribeCall(1)
    \/ UnsubscribeResume(1)
    \/ CleanupCall(1)
    \/ CleanupResume(1)
    \/ RegistryAnswers(1)
    \/ RegistryFails(1)

SoloPubSubSpec == Init /\ [][NextSoloPubSub]_vars

\* the message coroutine t dispatches: its own, different from its neighbour's
MessageOf(t) == IF t % 2 = 1 THEN "m1" ELSE "m2"

\* One PubSubManager whose handlers are coroutines: several handle_message
\* calls run concurrently, each coroutine with its message, and the handler
\* set changes only while none of them is running
NextDispatch ==
    \/ (NoDispatchRunning /\ SubscribeCall(1, {"hA", "hFail"}))
    \/ (NoDispatchRunning /\ SubscribeResume(1))
    \/ (NoDispatchRunning /\ UnsubscribeCall(1))
    \/ UnsubscribeResume(1)
    \/ RegistryAnswers(1)
    \/ \E t \in Tasks : HandleMessageBegin(t, {MessageOf(t)})
    \/ \E t \in Tasks : HandleMessageResume(t)

DispatchSpec == Init /\ [][NextDispatch]_vars

\* One PubSubManager whose handlers are coroutines: handle_message calls run
\* concurrently with subscribe and unsubscribe calls
NextDispatchRace ==
    \/ \E t \in Tasks : SubscribeCall(t, {"hA"})
    \/ \E t \in Tasks : SubscribeResume(t)
    \/ \E t \in Tasks : UnsubscribeCall(t)
    \/ \E t \in Tasks : UnsubscribeResume(t)
    \/ \E t \in Tasks : RegistryAnswers(t)
    \/ \E t \in Tasks : HandleMessageBegin(t, Messages)
    \/ \E t \in Tasks : HandleMessageResume(t)

DispatchRaceSpec == Init /\ [][NextDispatchRace]_vars

\* Two PubSubManager instances of one process, each called by one coroutine
NextTwoManagers ==
    \/ SubscribeCall(1, {"hA"})
    \/ SubscribeResume(1)
    \/ RegistryAnswers(1)
    \/ RegistryFails(1)
    \/ OtherSubscribe

TwoManagersSpec == Init /\ [][NextTwoManagers]_vars

\* One endpoint from its creation, with any number of port-conflict retries
\* below the ceiling, through unsubscribe calls to the end of its terminate()
NextLifecycle ==
    \/ CreateCall
    \/ CreateSetupReply
    \/ CreateBind
    \/ CreateRegisterReply
    \/ RegistryAnswers(1)
    \/ RegistryFails(1)
    \/ SubscribeResume(1)
    \/ CreateSubscribed
    \/ (cr.kind = "subscription" /\ cr.pc = "registered" /\ term.pc = "none"
           /\ UnsubscribeCall(1))
    \/ UnsubscribeResume(1)
    \/ TerminateCall
    \/ CleanupResume(1)
    \/ TerminateCleaned
    \/ TerminateUnregisterReply
    \/ TerminateStopped

LifecycleSpec == Init /\ [][NextLifecycle]_vars

\* The header builders and parse_command_headers, over every builder call
NextHeaders ==
    \/ BuildAndParse

HeadersSpec == Init /\ [][NextHeaders]_vars

\* One endpoint creation, from the call to the returned endpoint or the error.
\* The event loop runs a coroutine that is ready, and every exchange ends
\* (http_request has a timeout): weak fairness of the creation's steps.
NextCreate ==
    \/ CreateCall
    \/ CreateSetupReply
    \/ CreateBind
    \/ CreateRegisterReply
    \/ RegistryAnswers(1)
    \/ RegistryFails(1)
    \/ SubscribeResume(1)
    \/ CreateSubscribed

CreateSpec == Init /\ [][NextCreate]_vars /\ WF_vars(NextCreate)

\* One endpoint from its creation to the end of its terminate(), with the
\* requests that reach its listener in between
NextEndpoint ==
    \/ CreateCallWith({1})
    \/ CreateSetupReply
    \/ CreateBind
    \/ CreateRegisterReply
    \/ RegistryAnswers(1)
    \/ RegistryFails(1)
    \/ SubscribeResume(1)
    \/ CreateSubscribed
    \/ ServiceRequest
    \/ SubscriptionRequest
    \/ (cr.kind = "subscription" /\ HandleMessage)
    \/ TerminateCall
    \/ CleanupResume(1)
    \/ TerminateCleaned
    \/ TerminateUnregisterReply
    \/ TerminateStopped

EndpointSpec == Init /\ [][NextEndpoint]_vars

\* One service endpoint from its creation on, with before() attached at some
\* moment and the requests that reach its listener before and after that
NextBefore ==
    \/ CreateCallOf({"service"}, {1})
    \/ CreateSetupReply
    \/ CreateBind
    \/ CreateRegisterReply
    \/ Before
    \/ ServiceRequest

BeforeSpec == Init /\ [][NextBefore]_vars

\* One endpoint creation with any arguments, the refused ones included
NextCreateInput ==
    \/ CreateCallAnyArgs
    \/ CreateSetupReply
    \/ CreateBind
    \/ CreateRegisterReply
    \/ RegistryAnswers(1)
    \/ RegistryFails(1)
    \/ SubscribeResume(1)
    \/ CreateSubscribed

CreateInputSpec == Init /\ [][NextCreateInput]_vars

\* One service endpoint whose handler calls a dependent service through its
\* context and lets the failures go
NextChain ==
    \/ CreateCallOf({"service"}, {1})
    \/ CreateSetupReply
    \/ CreateBind
    \/ CreateRegisterReply
    \/ CallerRequest
    \/ PeerAnswers
    \/ CallerReturns

ChainSpec == Init /\ [][NextChain]_vars

\* One create_route call, with the create_service and the terminate() it makes
NextRoute ==
    \/ CreateRouteCall
    \/ CreateSetupReply
    \/ CreateBind
    \/ CreateRegisterReply
    \/ RouteServiceCreated
    \/ RouteRegisterReply
    \/ TerminateUnregisterReply
    \/ TerminateStopped
    \/ RouteTerminated

RouteSpec == Init /\ [][NextRoute]_vars

Next == NextCache \/ NextCall \/ NextSeqPubSub \/ NextPubSub \/ NextCreate \/ NextEndpoint
            \/ NextContext \/ NextSoloPubSub \/ NextBefore \/ NextCreateInput \/ NextChain \/ NextRoute
            \/ NextDispatch \/ NextDispatchRace \/ NextCacheCalls \/ NextTwoManagers
            \/ NextHeaders \/ NextLifecycle
Spec == Init /\ [][Next]_vars

\* ================================================================== claims

\* C1 (as stated): in every reachable cache state a location is in
\* services[name] if and only if addresses[location] = name.
C1_ReverseIndexConsistent ==
    \A name \in Names, location \in Locations :
        (name \in DOMAIN services /\ location \in Range(services[name]))
            <=> (location \in DOMAIN addresses /\ addresses[location] = name)

\* A call_service_with_cache call starts in this step (it raises at once or
\* reaches its await).
BeginsCachedCall ==
    /\ call.pc # "awaiting"
    /\ <<call, exchanges>>' # <<call, exchanges>>
    /\ call'.op = "call_service_with_cache"
    /\ call'.pc \in {"awaiting", "raised"}

HandlerCount(hs, c) == IF c \in DOMAIN hs THEN Len(hs[c]) ELSE 0

\* some coroutine sends this registry command in this step
Issues(request) ==
    \E t \in Tasks : tasks[t].request # request /\ tasks'[t].request = request

\* C4: over sequential, successful subscribe and unsubscribe calls a registry
\* subscribe command for a channel is issued exactly by the call that takes
\* the channel's handler count from 0 to 1, and a registry unsubscribe command
\* exactly by the call that takes it from 1 to 0.
C4_RegistryCommandsAtEdges ==
    [][\A c \in Channels :
        LET sub == BuildSubscribeHeaders(c, service_location)
            unsub == BuildUnsubscribeHeaders(c, service_location)
            n == HandlerCount(handlers, c)
            n2 == HandlerCount(handlers', c)
        IN  /\ Issues(sub) => (n = 0 /\ n2 = 0)
            /\ (n = 0 /\ n2 > 0)
                   => (/\ n2 = 1
                       /\ \E t \in Tasks : tasks[t].request = sub /\ tasks[t].reply = "ok"
                       /\ <<c, service_location>> \in regSubs)
            /\ (n > 0 /\ n2 > n) => (n2 = n + 1 /\ ~Issues(sub) /\ ~Issues(unsub))
            /\ Issues(unsub) <=> (n = 1 /\ n2 = 0)
            /\ n2 < n => n2 = n - 1
            /\ (n > 0 /\ \A t \in Tasks : tasks[t].pc = "idle")
                   => <<c, service_location>> \in regSubs]_vars

C4_Witness ==
    /\ HandlerCount(handlers, "c1") = 0
    /\ counter = 2
    /\ \E t \in Tasks :
           /\ tasks[t].pc = "unsubscribe"
           /\ tasks[t].request = BuildUnsubscribeHeaders("c1", service_location)
           /\ tasks[t].reply = "ok"
    /\ regSubs = {}

\* C5: handle_message on a channel with handlers invokes them in registration
\* order and returns instead of raising: results holds the return values
\* (None for a handler that returns nothing) of the handlers that succeeded,
\* in registration order, and errors one {subId, error, status} entry per
\* failing handler, carrying that handler's subscription id.
C5_DispatchAggregates ==
    [][(dispatch' # dispatch /\ dispatch'.channel \in DOMAIN handlers)
       => LET subs == handlers[dispatch'.channel]
              run(e) == HandlerRun(e.handler, dispatch'.message)
              succeeded == SelectSeq(subs, LAMBDA e : ~run(e).raised)
              failed == SelectSeq(subs, LAMBDA e : run(e).raised)
          IN  /\ \A i, j \in DOMAIN subs : i < j => subs[i].id[3] < subs[j].id[3]
              /\ dispatch'.invoked = [i \in DOMAIN subs |-> subs[i].id]
              /\ dispatch'.results = [i \in DOMAIN succeeded |-> run(succeeded[i]).value]
              /\ dispatch'.errors =
                     [i \in DOMAIN failed |->
                         [subId |-> failed[i].id, error |-> run(failed[i]).error,
                          status |-> 500]]]_vars

C5_Witness ==
    /\ dispatch.channel = "c1"
    /\ dispatch.results = <<"a", "b">>
    /\ Len(dispatch.errors) = 1
    /\ Len(dispatch.invoked) = 3
    /\ dispatch.errors[1].subId = dispatch.invoked[2]

\* C6 (as stated): for every interleaving of concurrent subscribe calls on a
\* channel with zero local handlers, the channel's handler set holds no
\* handler while the registry subscribe exchange for the channel is still
\* awaited.
C6_NoHandlerBeforeRegistered ==
    \A t \in Tasks :
        (tasks[t].pc = "subscribe" /\ tasks[t].reply = None)
            => HandlerCount(handlers, tasks[t].channel) = 0

\* C7 (as stated): whenever no subscribe, unsubscribe or cleanup call is in
\* progress, a channel the registry holds for the endpoint's location has at
\* least one local handler.
C7_RegistryEntryHasLocalHandler ==
    (\A t \in Tasks : tasks[t].pc = "idle")
        => \A c \in Channels :
               <<c, service_location>> \in regSubs => HandlerCount(handlers, c) >= 1

\* C8: when the first k allocated ports are reported in use on bind and the
\* (k+1)-th bind succeeds, with k below the retry ceiling, creation goes on to
\* REGISTERED having sent exactly k+1 setup commands, made k+1 bind attempts
\* and sent one register command; address-in-use fails a creation only at the
\* ceiling.
C8_RetryCounts ==
    /\ cr.pc \in {"register", "subscribing", "registered"}
           => (/\ cr.attempts < cr.retry_limit
               /\ cr.setups = cr.attempts + 1
               /\ cr.binds = cr.attempts + 1
               /\ cr.registers = 1
               /\ server.state = "listening"
               /\ server.port = PortOf(cr.location))
    /\ cr.pc = "failed"
           => \/ cr.failed_at \in {"setup", "register", "subscribe"}
              \/ cr.failed_at = "bind" /\ cr.error = "OSError"
              \/ cr.failed_at = "bind" /\ cr.attempts >= cr.retry_limit

C8_Witness ==
    /\ cr.pc = "registered"
    /\ cr.kind = "subscription"
    /\ cr.attempts = 2
    /\ cr.setups = 3
    /\ cr.binds = 3
    /\ cr.registers = 1

\* C9: endpoint creation always terminates; with retry ceiling N it never makes
\* more than N bind attempts or sends more than N setup commands, and when
\* every bind reports address-in-use it sends no register command and fails
\* with RegistrationError after N binds.
C9_BoundedRetry ==
    /\ [](/\ cr.binds <= cr.retry_limit
          /\ cr.setups <= cr.retry_limit
          /\ cr.attempts = cr.binds => (cr.registers = 0 /\ cr.pc # "registered")
          /\ (cr.pc = "failed" /\ cr.failed_at = "bind" /\ cr.attempts = cr.binds)
                 => (/\ cr.error = "RegistrationError"
                     /\ cr.binds = cr.retry_limit
                     /\ cr.setups = cr.retry_limit))
    /\ <>(cr.pc \in {"registered", "failed"})

C9_Witness ==
    /\ cr.pc = "failed"
    /\ cr.failed_at = "bind"
    /\ cr.error = "RegistrationError"
    /\ cr.retry_limit = 3
    /\ cr.attempts = 3
    /\ cr.binds = 3
    /\ cr.setups = 3
    /\ cr.registers = 0
    /\ server.state = "none"

\* C10 (as stated): every failure of endpoint creation caused by the setup
\* exchange, by the bind or by the register exchange reaches the caller as
\* RegistrationError.
C10_FailuresAreRegistrationErrors ==
    (cr.pc = "failed" /\ cr.failed_at \in {"setup", "bind", "register"})
        => cr.error = "RegistrationError"

\* C11 (as stated): whenever create_service or create_subscription_service
\* has failed, at whatever step, no listener bound by that creation is still
\* bound.
C11_NoListenerAfterFailure ==
    cr.pc = "failed" => server.state # "listening"

\* a header field that names something: neither left out nor "undefined"
Given(v) == v \notin {None, "", "undefined"}

\* C12: on a service endpoint a request with the cache-update command updates
\* the cache (add_subscription(channel, location) when a channel is given,
\* otherwise add_service(name, location) when a name is given, never both), is
\* answered with an acknowledgement and does not reach the user handler; any
\* other request reaches the user handler with its payload as received and
\* leaves the cache as it is.
C12_CacheUpdateIntercepted ==
    [][(inbound' # inbound /\ cr.kind = "service" /\ inbound'.handled_by # None)
       => LET req == inbound'.request
          IN  IF req.command = "cache-update"
              THEN /\ inbound'.handled_by = "cache"
                   /\ inbound'.response.status = 200
                   /\ inbound'.response.kind = "cache_updated"
                   /\ inbound'.response.about =
                          <<req.pubsub_channel, req.service_name, req.service_location>>
                   /\ IF Given(req.pubsub_channel)
                      THEN /\ subscriptions' = AddSubscriptionSubs(subscriptions,
                                                   req.pubsub_channel, req.service_location)
                           /\ UNCHANGED <<services, addresses>>
                      ELSE IF Given(req.service_name)
                      THEN /\ services' = AddServiceServices(services, req.service_name,
                                                             req.service_location)
                           /\ addresses' = AddServiceAddresses(addresses, req.service_name,
                                                               req.service_location)
                           /\ UNCHANGED subscriptions
                      ELSE UNCHANGED cacheVars
              ELSE /\ inbound'.handled_by = "user"
                   /\ inbound'.handler_payload = ParseBody(req.body)
                   /\ UNCHANGED cacheVars]_vars

C12_Witness ==
    /\ cr.kind = "service"
    /\ cr.pc = "registered"
    /\ inbound.handled_by = "cache"
    /\ inbound.request.pubsub_channel = "c1"
    /\ inbound.request.service_name = "b"
    /\ "c1" \in DOMAIN subscriptions
    /\ "b" \notin DOMAIN services

\* the endpoint's own (name, location) is in neither table of the cache
OwnPairAbsent ==
    /\ ~(OwnName \in DOMAIN services /\ cr.location \in Range(services[OwnName]))
    /\ ~(cr.location \in DOMAIN addresses /\ addresses[cr.location] = OwnName)

\* C13: terminate() never raises, whatever the registry exchanges do, and when
\* it has returned the listener is stopped, the endpoint's own (name, location)
\* is absent from the cache and a subscription endpoint's SubscriptionSet is
\* empty.
C13_TerminateCompletes ==
    /\ term.pc # "raised"
    /\ term.pc = "returned"
           => (/\ server.state = "stopped"
               /\ OwnPairAbsent
               /\ cr.kind = "subscription" => handlers = EmptyDict)

C13_Witness ==
    /\ term.pc = "returned"
    /\ cr.kind = "subscription"
    /\ term.unregister = "error"
    /\ {<<"c1", service_location>>, <<"c2", service_location>>} \subseteq regSubs
    /\ server.state = "stopped"
    /\ handlers = EmptyDict

\* C14: once terminate() of a subscription endpoint has returned, its listener
\* takes no request and a dispatch of a message invokes no handler.
C14_NoDeliveryAfterTerminate ==
    [][(term.pc = "returned" /\ cr.kind = "subscription")
       => (/\ inbound' = inbound
           /\ dispatch' # dispatch => dispatch'.invoked = <<>>)]_vars

C14_Witness ==
    /\ term.pc = "returned"
    /\ cr.kind = "subscription"
    /\ dispatch.channel = "c1"
    /\ dispatch.invoked = <<>>
    /\ <<"c1", service_location>> \in regSubs

\* C15 (as stated): after update_from_registry(snapshot) each of the three
\* tables holds exactly what the snapshot holds for it, nothing when the
\* snapshot leaves the table out, so that no earlier entry survives.
C15_ReplaceAllDiscardsPrior ==
    \A location \in Locations :
        \A registry_data \in Snapshots(OwnName, location) :
            LET given(key) == IF key \in DOMAIN registry_data
                              THEN registry_data[key] ELSE EmptyDict
            IN  /\ UpdatedTable(services, registry_data, "services") = given("services")
                /\ UpdatedTable(addresses, registry_data, "addresses") = given("addresses")
                /\ UpdatedTable(subscriptions, registry_data, "subscriptions")
                       = given("subscriptions")

\* the cache tables after add_service(name, location) followed by
\* remove_service(name, location), from the current state
AddThenRemove(name, location) ==
    [services |-> RemoveServiceServices(AddServiceServices(services, name, location),
                                        name, location),
     addresses |-> RemoveServiceAddresses(AddServiceAddresses(addresses, name, location),
                                          name, location)]

\* C16 (as stated): from every reachable cache state, after add_service(name,
\* location) then remove_service(name, location), has_service(name) is false
\* and addresses has no entry for location.
C16_AddRemoveForgetsName ==
    \A name \in Names, location \in Locations :
        LET after == AddThenRemove(name, location)
        IN  /\ ~HasService(after.services, name)
            /\ location \notin DOMAIN after.addresses

\* C16 (amended): after add_service(name, location) then remove_service(name,
\* location), services[name] does not hold location and addresses has no
\* entry for location; has_service(name) is false exactly when the name had no
\* other location before the two calls.
C16_AddRemoveForgetsLocation ==
    \A name \in Names, location \in Locations :
        LET after == AddThenRemove(name, location)
            others == IF name \in DOMAIN services
                      THEN Range(services[name]) \ {location} ELSE {}
        IN  /\ name \in DOMAIN after.services
                   => location \notin Range(after.services[name])
            /\ location \notin DOMAIN after.addresses
            /\ HasService(after.services, name) <=> others # {}
            /\ others # {} => Range(after.services[name]) = others

\* the state after add_service(a, 1), add_service(a, 2), remove_service(a, 2)
C16_Witness ==
    /\ "a" \in DOMAIN services
    /\ services["a"] = <<Location(1)>>
    /\ Location(1) \in DOMAIN addresses
    /\ addresses[Location(1)] = "a"
    /\ Location(2) \notin DOMAIN addresses
    /\ HasService(AddThenRemove("a", Location(2)).services, "a")

\* C17: in every reachable cache state get_location(name) returns a location
\* that is in services[name], or None; for a name that is absent or has no
\* location it returns None, and it has a value (it does not raise) for every
\* name, cached or not.
C17_GetLocationFromCache ==
    \A name \in Names \cup {"unknown"} :
        LET picked == GetLocation(services, name)
            cached == IF name \in DOMAIN services THEN Range(services[name]) ELSE {}
        IN  /\ picked # {}
            /\ picked \subseteq cached \cup {None}
            /\ cached = {} => picked = {None}
            /\ cached # {} => picked = cached

C17_Witness ==
    /\ "a" \in DOMAIN services
    /\ GetLocation(services, "a") = {Location(1), Location(2)}
    /\ "b" \notin DOMAIN services
    /\ GetLocation(services, "b") = {None}
    /\ call.pc = "awaiting"
    /\ call.op = "call_service_with_cache"
    /\ call.name = "a"
    /\ exchanges[1].to = Location(2)

\* C18 (as stated): for every name that is in the cache when the attribute is
\* looked up, names with a leading underscore and names of the context's own
\* members included, the lookup yields a service stub.
C18_EveryCachedNameHasStub ==
    (stub.kind # None /\ stub.cached) => stub.kind = "stub"

\* C19 (as stated): looking up a name that is absent from the cache fails with
\* AttributeError.
C19_AbsentNameFailsLookup ==
    (stub.kind # None /\ ~stub.cached) => stub.kind = "AttributeError"

\* C19 (amended): looking up a name that is absent from the cache and is not
\* one of the context's own members fails at lookup time with AttributeError,
\* never with ServiceNotFoundError, and makes no transport exchange (no call
\* is started by the lookup).
C19_AbsentNonMemberFailsLookup ==
    [][(stub' # stub /\ stub'.kind # None /\ ~stub'.invoked
        /\ ~(stub'.attr \in DOMAIN services /\ Len(services[stub'.attr]) > 0)
        /\ stub'.attr \notin Members)
       => (/\ stub'.kind = "AttributeError"
           /\ call'.pc = "idle"
           /\ exchanges' = <<>>
           /\ UNCHANGED cacheVars)]_vars

C19_Witness ==
    /\ stub.kind = "AttributeError"
    /\ stub.attr = "a"
    /\ ~stub.cached
    /\ "a" \notin DOMAIN services
    /\ "call" \in DOMAIN services
    /\ exchanges = <<>>

\* C20 (as stated): a call through the context makes a transport exchange in
\* every case: to a cached location of the name when the name is in the
\* cache, and to the registry with the service-call command when it is not.
C20_ContextCallFallsBackToRegistry ==
    (call.op = "call_service_with_cache" /\ call.pc # "idle")
        => (/\ Len(exchanges) = 1
            /\ exchanges[1].to \in ContextLocations \cup Locations \cup {Registry})

\* coroutine t makes an unsubscribe call in this step
BeginsUnsubscribe(t) ==
    /\ tasks[t].pc = "idle"
    /\ tasks'[t].op = "unsubscribe"
    /\ tasks'[t].pc \in {"idle", "unsubscribe"}
    /\ <<tasks[t], handlers>> # <<tasks'[t], handlers'>>

\* C21: an unsubscribe call that fails with ValueError sends no registry
\* command and leaves the handler table as it was, and an unsubscribe call
\* that does anything else was given a channel and an id registered for that
\* channel: it removes exactly that id.
C21_UnknownSubscriptionRejected ==
    [][\A t \in Tasks :
        BeginsUnsubscribe(t)
            => IF tasks'[t].outcome = "ValueError"
               THEN /\ handlers' = handlers
                    /\ regSubs' = regSubs
                    /\ tasks'[t].pc = "idle"
                    /\ tasks'[t].request = NoRequest
               ELSE \E c \in DOMAIN handlers :
                        \E id \in Range(IdsOf(handlers[c])) :
                            LET rest == DelHandler(handlers[c], id)
                            IN  /\ Len(rest) = Len(handlers[c]) - 1
                                /\ handlers' = IF Len(rest) = 0
                                               THEN Del(handlers, c)
                                               ELSE Put(handlers, c, rest)]_vars

\* unsubscribe was refused while one channel held a handler and another held
\* an entry without handlers
C21_Witness ==
    /\ tasks[1] = Finish("unsubscribe", "ValueError")
    /\ HandlerCount(handlers, "c1") = 1
    /\ "c2" \in DOMAIN handlers /\ HandlerCount(handlers, "c2") = 0
    /\ regSubs = {<<"c1", service_location>>}

\* the items of a list are pairwise different
Distinct(list) == \A i, j \in DOMAIN list : i # j => list[i] # list[j]

\* C22: with one caller, cleanup() walks every channel of the handler table:
\* while it runs, the channels still to do are exactly the table's channels
\* and an unsubscribe command for the first of them is out; whatever the
\* answer to a command, failure included, the channel is deleted and the next
\* channel's command is issued; after the last one cleanup returns without
\* raising and the table is empty.
C22_CleanupBestEffort ==
    [][\A t \in Tasks :
        /\ tasks'[t].pc = "cleanup"
              => /\ Range(tasks'[t].keys) = DOMAIN handlers'
                 /\ Distinct(tasks'[t].keys)
                 /\ tasks'[t].request =
                        BuildUnsubscribeHeaders(tasks'[t].keys[1], service_location)
        /\ (tasks[t].pc = "idle" /\ tasks'[t].op = "cleanup" /\ tasks'[t].pc = "idle"
            /\ tasks'[t] # tasks[t])
              => (handlers = EmptyDict /\ tasks'[t].outcome = "returned")
        /\ (tasks[t].pc = "cleanup" /\ tasks[t].reply # None /\ tasks'[t] # tasks[t])
              => /\ handlers' = Del(handlers, tasks[t].channel)
                 /\ IF Len(tasks[t].keys) = 1
                    THEN /\ tasks'[t] = Finish("cleanup", "returned")
                         /\ handlers' = EmptyDict
                    ELSE /\ tasks'[t].pc = "cleanup"
                         /\ tasks'[t].keys = Tail(tasks[t].keys)
                         /\ tasks'[t].reply = None]_vars

\* cleanup has returned after its unsubscribe commands for both channels
\* failed: the table is empty and the registry still holds both channels
C22_Witness ==
    /\ tasks[1] = Finish("cleanup", "returned")
    /\ handlers = EmptyDict
    /\ counter = 2
    /\ regSubs = {<<"c1", service_location>>, <<"c2", service_location>>}

\* C29 (as stated): when the registry exchange of a subscribe call for a
\* channel with zero local handlers fails, the handler table has no entry for
\* the channel afterwards, and a channel gets its first handler only from a
\* subscribe call whose registry subscribe command was issued and answered.
C29_FailedSubscribeStaysUnregistered ==
    [][/\ \A t \in Tasks :
            (tasks[t].pc = "subscribe" /\ tasks'[t] = Finish("subscribe", "HttpError"))
                => tasks[t].channel \notin DOMAIN handlers'
       /\ \A c \in Channels :
            (HandlerCount(handlers, c) = 0 /\ HandlerCount(handlers', c) > 0)
                => \E t \in Tasks :
                       /\ tasks[t].pc = "subscribe"
                       /\ tasks[t].request = BuildSubscribeHeaders(c, service_location)
                       /\ tasks[t].reply = "ok"]_vars

\* a request reaches the listener in this step while the server's handler is
\* the preprocessing_handler installed by before()
HandledBehindBefore ==
    /\ inbound' # inbound
    /\ inbound'.handled_by # None
    /\ server.handler = "preprocessing_handler"

\* C23: with a preprocessing step attached, a request that is not a
\* cache-update runs the step first; when the step returns a value the user
\* handler is invoked with that value as its payload, and when it returns
\* None the user handler is not invoked and the answer is 204 No Content.
C23_BeforeRunsFirst ==
    [][(HandledBehindBefore /\ inbound'.request.command # "cache-update")
       => /\ inbound'.before \in {"returned", "raised"}
          /\ UNCHANGED cacheVars
          /\ (inbound'.before = "returned" /\ inbound'.before_result # None)
                => /\ inbound'.handled_by = "user"
                   /\ inbound'.handler_payload = inbound'.before_result
          /\ (inbound'.before = "returned" /\ inbound'.before_result = None)
                => /\ inbound'.handled_by = "before"
                   /\ inbound'.handler_payload = None
                   /\ inbound'.response.status = 204
                   /\ inbound'.response.kind = "no-content"
          /\ inbound'.before = "raised" => inbound'.handled_by = "before"]_vars

\* a request with a body was answered by the user handler, which was given
\* the preprocessing step's value instead of the body
C23_Witness ==
    /\ server.handler = "preprocessing_handler"
    /\ inbound.handled_by = "user"
    /\ inbound.request.body.value = "p1"
    /\ inbound.before_result = "q1"
    /\ inbound.handler_payload = "q1"
    /\ inbound.response.status = 200

\* C27 (as stated): after before() every cache-update request still updates
\* the cache and is acknowledged, and neither the preprocessing step nor the
\* user handler runs for it.
C27_CacheUpdateFirstAfterBefore ==
    [][(HandledBehindBefore /\ inbound'.request.command = "cache-update")
       => LET req == inbound'.request
          IN  /\ inbound'.handled_by = "cache"
              /\ inbound'.before = None
              /\ inbound'.response = Acknowledgement(req)
              /\ Given(req.pubsub_channel)
                    => subscriptions' = AddSubscriptionSubs(subscriptions,
                                            req.pubsub_channel, req.service_location)
              /\ (~Given(req.pubsub_channel) /\ Given(req.service_name))
                    => services' = AddServiceServices(services, req.service_name,
                                                      req.service_location)]_vars

\* the arguments the claim calls invalid
InvalidInput(kind, args) ==
    IF kind = "service"
    THEN \/ args.handler = NotCallable
         \/ args.name.type # "str"
         \/ args.name.chars = <<>>
         \/ \E i \in DOMAIN args.name.chars : args.name.chars[i] = " "
    ELSE \/ args.channel_map = <<>>
         \/ \E i \in DOMAIN args.channel_map : args.channel_map[i].handler = NotCallable

\* C24: a create_service or create_subscription_service call with invalid
\* arguments has failed with ValueError without a setup or register command
\* sent, without a bind attempt, without a listener and without a registry
\* subscribe command.
C24_InvalidInputRejectedFirst ==
    (cr.pc # "none" /\ InvalidInput(cr.kind, cr.args))
        => /\ cr.pc = "failed"
           /\ cr.error = "ValueError"
           /\ cr.setups = 0 /\ cr.binds = 0 /\ cr.registers = 0
           /\ server = NoServer
           /\ regSubs = {}
           /\ \A t \in Tasks : tasks[t] = IdleTask

\* create_service('a b', handler) was refused
C24_Witness ==
    /\ cr.pc = "failed"
    /\ cr.failed_at = "validate"
    /\ cr.kind = "service"
    /\ cr.args.name = Str(<<"a", " ", "b">>)
    /\ cr.args.handler = "hA"
    /\ cr.setups = 0

\* C25 (as stated): when the dependent service's handler has failed and the
\* calling handler did not catch the failure, the caller of the calling
\* service is answered with an error whose status is the one the dependent
\* failure carried, or 500 when it carried none; never with a success.
C25_DependentFailurePropagates ==
    (/\ inbound.handled_by = "user"
     /\ inbound.response # NoResponse
     /\ peer.handled
     /\ peer.outcome.raised)
        => /\ inbound.response.kind = "error"
           /\ inbound.response.status =
                  IF peer.outcome.status_code # 0
                  THEN peer.outcome.status_code
                  ELSE 500

\* C26: when create_route was given a handler function, has created the
\* service and its route-register exchange failed, the error the caller gets
\* is YamfError with status 500, and by then the service's terminate() has
\* run: the unregister command was sent and the listener is stopped. When it
\* was given a service name no service is created, no listener bound, and the
\* value returned is None.
C26_RouteFailureTerminatesService ==
    /\ (route.pc = "raised" /\ route.given = "handler" /\ route.service)
          => /\ route.error = "YamfError"
             /\ route.status_code = 500
             /\ term.pc = "returned"
             /\ term.log = <<"unregister", "remove", "stop">>
             /\ term.unregister \in {"ok", "error"}
             /\ server.state = "stopped"
    /\ (route.pc \in {"returned", "raised"} /\ route.given = "handler"
        /\ ~route.service)
          => (route.pc = "raised" /\ cr.pc = "failed" /\ route.error = cr.error)
    /\ route.given = "name"
          => /\ cr = NoCreation
             /\ server = NoServer
             /\ term = NoTerminate
             /\ route.pc = "returned" => route.result = None
             /\ route.pc = "raised"
                   => (route.error = "YamfError" /\ route.status_code = 500)

\* create_route(path, handler) has raised after the route-register exchange
\* and the unregister exchange both failed: the listener is stopped
C26_Witness ==
    /\ route.pc = "raised"
    /\ route.given = "handler"
    /\ route.service
    /\ route.commands = 1
    /\ term.unregister = "error"
    /\ server.state = "stopped"

\* a request reaches the listener of a subscription endpoint in this step
HandledBySubscriptionEndpoint ==
    /\ inbound' # inbound
    /\ cr.kind = "subscription"
    /\ inbound'.handled_by # None

\* C28 (as stated): on a subscription endpoint a cache-update request updates
\* the cache (add_subscription when a channel is given, otherwise add_service
\* when a name is given) and is acknowledged, and a pubsub-publish request for
\* a channel with handlers goes to the manager's dispatch.
C28_SubscriptionEndpointInterceptsCacheUpdate ==
    [][HandledBySubscriptionEndpoint
       => LET req == inbound'.request
          IN  /\ req.command = "cache-update"
                 => /\ inbound'.handled_by = "cache"
                    /\ inbound'.response = Acknowledgement(req)
                    /\ Given(req.pubsub_channel)
                          => subscriptions' = AddSubscriptionSubs(subscriptions,
                                                  req.pubsub_channel, req.service_location)
                    /\ (~Given(req.pubsub_channel) /\ Given(req.service_name))
                          => services' = AddServiceServices(services, req.service_name,
                                                            req.service_location)
              /\ (req.command = "pubsub-publish"
                  /\ HandlerCount(handlers, req.pubsub_channel) > 0)
                 => /\ inbound'.handled_by = "pubsub"
                    /\ dispatch' = HandleMessageResult(handlers, req.pubsub_channel,
                                                       ParseBody(req.body))]_vars

\* C30 (as stated): a pubsub-publish request to a subscription endpoint for a
\* channel without local handlers is answered with the dispatch outcome for
\* that channel: no results and one entry in errors.
C30_PublishWithoutHandlersGetsDispatchOutcome ==
    [][(HandledBySubscriptionEndpoint
        /\ inbound'.request.command = "pubsub-publish"
        /\ Given(inbound'.request.pubsub_channel)
        /\ HandlerCount(handlers, inbound'.request.pubsub_channel) = 0)
       => /\ inbound'.response.kind = "dispatch"
          /\ dispatch'.channel = inbound'.request.pubsub_channel
          /\ dispatch'.results = <<>>
          /\ Len(dispatch'.errors) = 1]_vars

\* the steps of terminate() in the order the claim gives them
TerminateOrder ==
    IF cr.kind = "subscription"
    THEN <<"cleanup", "unregister", "remove", "stop">>
    ELSE <<"unregister", "remove", "stop">>

\* C31: the steps terminate() has taken are always a beginning of: cleanup
\* (subscription endpoint only), unregister command, removal of the own
\* location from the cache, stop of the listener. The unregister command of a
\* subscription endpoint goes out after cleanup has returned and emptied the
\* handler table, the removal comes after the unregister exchange has ended,
\* and the listener is up until the last step.
C31_TerminateOrder ==
    /\ Len(term.log) <= Len(TerminateOrder)
    /\ term.log = SubSeq(TerminateOrder, 1, Len(term.log))
    /\ term.pc = "returned" => term.log = TerminateOrder
    /\ (cr.kind = "subscription" /\ "unregister" \in Range(term.log))
          => (tasks[1] = Finish("cleanup", "returned") /\ handlers = EmptyDict)
    /\ "remove" \in Range(term.log) => (term.unregister # None /\ OwnPairAbsent)
    /\ (term.pc \notin {"none", "returned"}) => server.state = "listening"

\* terminate() of a subscription endpoint is about to stop the listener
C31_Witness ==
    /\ cr.kind = "subscription"
    /\ term.pc = "stopping"
    /\ term.log = <<"cleanup", "unregister", "remove">>
    /\ term.unregister = "ok"
    /\ server.state = "listening"

\* A handle_message call of coroutine t ends in this step.
DispatchEnds(t) ==
    /\ tasks'[t] # tasks[t]
    /\ tasks'[t].pc = "idle"
    /\ tasks'[t].op = "handle_message"

\* C32: a handle_message(channel, message) call that ends, alone or while
\* other dispatches run, has returned, has called every handler of the channel
\* exactly once, in order, with its own message, has called no other handler,
\* and len(results) + len(errors) is the channel's handler count.
C32_EachHandlerOnce ==
    [][\A t \in Tasks :
          DispatchEnds(t) =>
              LET value == dispatch'
                  subs == IF value.channel \in DOMAIN handlers
                          THEN handlers[value.channel] ELSE <<>>
              IN  /\ tasks'[t].outcome = "returned"
                  /\ value.channel \in Channels
                  /\ tasks[t].pc = "handle_message"
                        => (/\ value.channel = tasks[t].channel
                            /\ value.message = tasks[t].loop.message)
                  /\ value.invoked =
                        [i \in DOMAIN subs |-> [subId |-> subs[i].id,
                                                message |-> value.message]]
                  /\ value.channel \in DOMAIN handlers
                        => Len(value.results) + Len(value.errors) = Len(subs)
                  /\ Len(value.results) =
                        Cardinality({i \in DOMAIN subs : subs[i].handler = "hA"})]_vars

\* two dispatches of different messages on one channel with two handlers, one
\* that raises, both awaiting their second handler
C32_Witness ==
    /\ tasks[1].pc = "handle_message"
    /\ tasks[2].pc = "handle_message"
    /\ tasks[1].channel = tasks[2].channel
    /\ tasks[1].loop.message # tasks[2].loop.message
    /\ tasks[1].loop.pos = 2
    /\ tasks[2].loop.pos = 2
    /\ Len(tasks[1].loop.errors) + Len(tasks[2].loop.errors) > 0
    /\ Len(handlers[tasks[1].channel]) = 2

\* C38 (as stated): a handle_message call that runs concurrently with
\* subscribe or unsubscribe calls on its channel ends by returning its
\* {results, errors} value, never by raising.
C38_DispatchCompletes ==
    \A t \in Tasks :
        (tasks[t].pc = "idle" /\ tasks[t].op = "handle_message")
            => tasks[t].outcome = "returned"

\* a list holds no element twice
NoDuplicates(list) == \A i, j \in DOMAIN list : i # j => list[i] # list[j]

\* C33: in every cache state reached from the empty cache by add_service,
\* remove_service, add_subscription and remove_subscription calls, no list of
\* locations holds a location twice and no name or channel maps to an empty
\* list.
C33_ListsWellFormed ==
    /\ \A name \in DOMAIN services :
          Len(services[name]) > 0 /\ NoDuplicates(services[name])
    /\ \A channel \in DOMAIN subscriptions :
          Len(subscriptions[channel]) > 0 /\ NoDuplicates(subscriptions[channel])

\* a cache that additions and a removal have shaped: "a" and "c2" hold two
\* locations each, no other name or channel has an entry, and the reverse
\* entry of Location(1) is gone, which only a remove_service call does
C33_Witness ==
    /\ services = Put(EmptyDict, "a", <<Location(1), Location(2)>>)
    /\ Location(1) \notin DOMAIN addresses
    /\ subscriptions = Put(EmptyDict, "c2", <<Location(2), Location(1)>>)

\* the subscription ids that successful subscribe calls on a manager's
\* handler table have returned and that are still subscribed
HeldIds(hs) == UNION {Range(IdsOf(hs[c])) : c \in DOMAIN hs}

\* C34 (as stated): subscription ids are unique in the process: two
\* successful subscribe calls return distinct ids, also in the same
\* millisecond and on different PubSubManager instances.
C34_IdsProcessUnique ==
    /\ \A c \in DOMAIN handlers : NoDuplicates(IdsOf(handlers[c]))
    /\ HeldIds(handlers) \cap HeldIds(other.handlers) = {}

\* the descriptor fields of a command: service name, service location,
\* channel, route path, route data type, auth-service name
DescriptorFields ==
    {"service_name", "service_location", "pubsub_channel", "route_path",
     "route_data_type", "use_auth_service"}

\* C35 (as stated): parse_command_headers applied to the header set a builder
\* made recovers the command and every descriptor field given to the builder,
\* and reports as absent (None) every descriptor field the builder was not
\* given.
C35_ParseRecoversGiven ==
    wire.kind # None =>
        /\ wire.parsed.command = wire.kind
        /\ \A f \in DescriptorFields :
              wire.parsed[f] = IF wire.given[f] = NotGiven THEN None
                               ELSE wire.given[f]

\* what the parsed field holds for an argument: the default of the parameter
\* when the argument is left out, nothing for an empty auth-service name
Recovered(f, value) ==
    IF f = "route_data_type" /\ wire.kind = Command.ROUTE_REGISTER
    THEN Arg(value, "application/json")
    ELSE IF f = "use_auth_service"
    THEN (IF Truthy(Arg(value, None)) THEN value ELSE None)
    ELSE Arg(value, None)

\* C35 (amended): parse_command_headers applied to the header set a builder
\* made recovers the command and every descriptor field given to the builder,
\* except that an empty auth-service name is reported as absent, and reports
\* as absent every descriptor field the builder was not given, except that the
\* route data type of a route-register command is then "application/json".
C35_ParseRecoversEffective ==
    wire.kind # None =>
        /\ wire.parsed.command = wire.kind
        /\ \A f \in DescriptorFields : wire.parsed[f] = Recovered(f, wire.given[f])

\* a route-register header set built without a data type and parsed back
C35_Witness ==
    /\ wire.kind = Command.ROUTE_REGISTER
    /\ wire.given.route_data_type = NotGiven
    /\ wire.given.route_path = "w"
    /\ wire.parsed.route_path = "w"
    /\ wire.parsed.route_data_type = "application/json"

\* the pair the last acknowledged cache-update push named is in the cache
AcknowledgedPairCached ==
    LET req == inbound.request
    IN  IF Present(req.pubsub_channel)
        THEN /\ req.pubsub_channel \in DOMAIN subscriptions
             /\ req.service_location \in Range(subscriptions[req.pubsub_channel])
        ELSE IF Present(req.service_name)
        THEN /\ req.service_name \in DOMAIN services
             /\ req.service_location \in Range(services[req.service_name])
        ELSE TRUE

\* C36 (as stated): once create_service has returned, the (name, location) or
\* (channel, location) of a cache-update push that the listener acknowledged
\* after it was bound is in the Discovery Cache, whatever the order of the
\* push, the register exchange and the application of the snapshot.
C36_AcknowledgedPushKept ==
    (cr.kind = "service" /\ cr.pc = "registered" /\ term.pc = "none"
        /\ inbound.handled_by = "cache")
        => AcknowledgedPairCached

\* C37 (as stated): whenever no subscribe or unsubscribe call is in progress,
\* a channel with at least one local handler is held by the registry for the
\* manager's location, for every interleaving of concurrent calls whose
\* exchanges may fail.
C37_LocalHandlerHasRegistryEntry ==
    (\A t \in Tasks : tasks[t].pc = "idle")
        => \A c \in Channels :
               HandlerCount(handlers, c) >= 1 => <<c, service_location>> \in regSubs

\* the locations carried by the registry commands of the endpoint that name
\* its own location: service-register, the pubsub-subscribe or
\* pubsub-unsubscribe command being exchanged, service-unregister
OwnLocationsSent ==
    ({cr.register_location, term.unregister_location}
        \cup {tasks[t].request.location : t \in Tasks}) \ {None}

\* C39: every registry command of an endpoint that names its own location
\* carries the location the last setup command returned, whose port is the
\* port the listener is bound to, also after port-conflict retries; the
\* registry holds subscriptions of the endpoint under that location only.
C39_OneOwnLocation ==
    /\ OwnLocationsSent \subseteq {cr.location}
    /\ OwnLocationsSent # {}
          => (server.state # "none" /\ server.port = PortOf(cr.location))
    /\ \A pair \in regSubs : pair[2] = cr.location

\* after two port-conflict retries that ended at another location, a
\* subscription endpoint that subscribed under it sends its unregister command
C39_Witness ==
    /\ cr.kind = "subscription"
    /\ cr.attempts = 2
    /\ cr.location = Location(2)
    /\ <<"c1", Location(2)>> \in regSubs
    /\ term.pc = "unregister"
    /\ term.unregister_location = Location(2)
    /\ server.port = 2

\* the stub obtained earlier is invoked in this step
InvokesStub ==
    /\ stub.kind = "stub"
    /\ call.pc # "awaiting"
    /\ cacheVars' = cacheVars
    /\ stub' = [stub EXCEPT !.invoked = TRUE]
    /\ call'.pc \in {"awaiting", "raised"}
    /\ call'.name = stub.attr

====
